---------------------------- MODULE Spec2Model ----------------------------
(***************************************************************************)
(* A model of the claude-side-bar task-queue sidebar.                      *)
(*                                                                         *)
(*   - the persistence layer (src/src/persistence/store.ts): tasks.json,   *)
(*     active.json, history.log, and done.json as the todo-sync hook       *)
(*     (src/src/sync-todos.ts) writes it;                                  *)
(*   - the raw-terminal sidebar, latest revision (the second RawSidebar    *)
(*     class of src/src/components/RawSidebar.tsx, lines 737-1722): the    *)
(*     input state machine, the edit buffer and the two polling timers;    *)
(*   - the two-tick completion revision (src/unnamed/part_005).            *)
(*                                                                         *)
(* Strings are sequences of one-character strings.  A JavaScript number    *)
(* that can become NaN (the edit cursor) is an integer, with NaN encoded   *)
(* as a value no arithmetic of the model produces.                         *)
(***************************************************************************)
EXTENDS Integers, Sequences, FiniteSets, TLC

(***************************************************************************)
(* Bounds of the model.                                                    *)
(***************************************************************************)
\* tasks ever created by addTask in one behaviour
MaxTasks == 3
\* longest edit buffer the editing specifications let the user type
MaxBuf == 3
\* longest edit buffer the task-lifecycle specification lets the user type
MaxContent == 1
\* the cursor offsets followed once the cursor has left the buffer
CursorCap == 5
\* longest text the paste decoder collects
MaxPaste == 16

(***************************************************************************)
(* JavaScript values.                                                      *)
(***************************************************************************)
\* NaN, as 0 / 0 and Infinity * 0 give it
NaN == -1000
\* null / undefined
None == [id |-> 0, content |-> <<>>]
\* what s[i] gives outside the string
Undefined == "undefined"

Min(a, b) == IF a < b THEN a ELSE b
Max(a, b) == IF a > b THEN a ELSE b

IsNaN(x) == x = NaN
\* a < b, a <= b, a > b, a >= b: false when an operand is NaN
JsLt(a, b) == ~IsNaN(a) /\ ~IsNaN(b) /\ a < b
JsLe(a, b) == ~IsNaN(a) /\ ~IsNaN(b) /\ a <= b
JsGt(a, b) == JsLt(b, a)
JsGe(a, b) == JsLe(b, a)
JsAdd(a, b) == IF IsNaN(a) \/ IsNaN(b) THEN NaN ELSE a + b
JsSub(a, b) == IF IsNaN(a) \/ IsNaN(b) THEN NaN ELSE a - b
\* Math.min(a, b)
JsMin(a, b) == IF IsNaN(a) \/ IsNaN(b) THEN NaN ELSE Min(a, b)
\* Math.floor(a / b) * c as the visual-line keys compute it: a / 0 is
\* NaN (a = 0) or Infinity, and both give NaN once multiplied by c = 0;
\* the only zero divisor the handlers use is the c they multiply by
FloorDiv(a, b) == IF b > 0 THEN a \div b ELSE (0 - a) \div (0 - b)
FloorDivTimes(a, b, c) == IF IsNaN(a) \/ b = 0 THEN NaN ELSE FloorDiv(a, b) * c

\* String.prototype.slice's reading of an index: NaN is 0, a negative
\* index counts from the end, and the result is clamped to the string
RelIndex(s, i) ==
  IF IsNaN(i) THEN 0
  ELSE IF i < 0 THEN Max(Len(s) + i, 0)
  ELSE Min(i, Len(s))

\* s.slice(a, b)
Slice(s, a, b) ==
  LET from == RelIndex(s, a)
      to == RelIndex(s, b)
  IN IF from < to THEN SubSeq(s, from + 1, to) ELSE <<>>

\* s.slice(a)
SliceFrom(s, a) == Slice(s, a, Len(s))

\* s[i]
CharAt(s, i) == IF ~IsNaN(i) /\ i >= 0 /\ i < Len(s) THEN s[i + 1] ELSE Undefined

\* s.trim()
RECURSIVE TrimLeft(_)
TrimLeft(s) == IF s # <<>> /\ Head(s) \in {" ", "\n", "\r"} THEN TrimLeft(Tail(s)) ELSE s
RECURSIVE TrimRight(_)
TrimRight(s) ==
  IF s # <<>> /\ s[Len(s)] \in {" ", "\n", "\r"} THEN TrimRight(SubSeq(s, 1, Len(s) - 1)) ELSE s
\* a trim that removes nothing
TrimNothing(s) == s
Trim(s) == TrimRight(TrimLeft(s))

\* s.split(/\r?\n/)
RECURSIVE SplitLines(_, _)
SplitLines(s, cur) ==
  IF s = <<>> THEN <<cur>>
  ELSE IF Head(s) = "\n" THEN <<cur>> \o SplitLines(Tail(s), <<>>)
  ELSE IF Head(s) = "\r" /\ Len(s) >= 2 /\ s[2] = "\n" THEN <<cur>> \o SplitLines(Tail(Tail(s)), <<>>)
  ELSE SplitLines(Tail(s), Append(cur, Head(s)))

\* s.replace(/\r?\n/g, ' ')
RECURSIVE NewlinesToSpaces(_)
NewlinesToSpaces(s) ==
  IF s = <<>> THEN <<>>
  ELSE IF Head(s) = "\n" THEN <<" ">> \o NewlinesToSpaces(Tail(s))
  ELSE IF Head(s) = "\r" /\ Len(s) >= 2 /\ s[2] = "\n" THEN <<" ">> \o NewlinesToSpaces(Tail(Tail(s)))
  ELSE <<Head(s)>> \o NewlinesToSpaces(Tail(s))

\* xs.map(f), for a sequence
MapSeq(xs, f(_)) == [i \in 1..Len(xs) |-> f(xs[i])]

Range(xs) == {xs[i] : i \in 1..Len(xs)}

(***************************************************************************)
(* State.                                                                  *)
(***************************************************************************)
VARIABLES
  \* the project directory: tasks.json, active.json, done.json, history.log
  fsTasks, fsActive, fsDone, history,
  \* RawSidebar.state
  tasks, activeTask, doneTasks,
  selectedSection, selectedIndex, doneSelectedIndex,
  inputMode, editingTaskId, inputBuffer, inputCursor,
  \* RawSidebar's private fields
  width, focused, running, pollInterval, completionInterval, stableCount,
  \* a completion check that awaits isClaudeAtPrompt()
  checking,
  \* the task activateTask has taken out of tasks.json and not yet written
  \* to active.json (None outside activateTask)
  activating,
  \* the ids crypto.randomUUID() has handed out so far
  nextId,
  \* the texts handed to sendToClaudePane, in call order
  sent,
  \* what the previous completion tick of the two-tick revision observed,
  \* and what the last refresh tick did where that is recorded
  lastObs,
  \* the ids of the tasks a completion check has completed
  autoDone,
  \* getClaudePaneId() finds the assistant's pane
  claudePane,
  \* the calls of sendToClaudePane and focusClaudePane in issue order, each
  \* with how far it has run, and the effects the pane backend has applied,
  \* in the order it applied them
  paneCalls, paneLog,
  \* the terminal is as start() set it (raw, no echo, alternate screen,
  \* focus reporting and bracketed paste on), and the process has ended
  rawMode, exited,
  \* a run of the todo-sync hook: where it is (pc), the todos it was given
  \* and what it has read of tasks.json and done.json
  hook,
  \* the rows of the terminal, and whether a statusline is in the state
  height, statusline,
  \* the frame of the last full repaint a terminal report (a resize, a
  \* focus-in or a focus-out) has made: NoFrame before the first
  painted,
  \* the paste decoder of handleInput
  isPasting, pasteBuffer,
  \* the chunks of a paste the terminal has written that stdin has not yet
  \* handed to handleInput
  stdin,
  \* how the input mode was last left: "enter", "blank" (Enter over an empty
  \* or whitespace-only buffer), "escape" or "paste"
  \* ("none" while it is open and before it was first opened)
  leftBy

fsVars == <<fsTasks, fsActive, fsDone, history>>
memVars == <<tasks, activeTask, doneTasks>>
selVars == <<selectedSection, selectedIndex, doneSelectedIndex>>
editVars == <<inputMode, editingTaskId, inputBuffer, inputCursor, leftBy>>
timerVars == <<pollInterval, completionInterval, stableCount, checking, lastObs, autoDone>>
termVars == <<width, focused, running>>
\* everything outside the sidebar's task state, edit state and timers
pasteVars == <<isPasting, pasteBuffer, stdin>>
screenVars == <<height, statusline, painted>>
paneVars == <<paneCalls, paneLog>>
procVars == <<rawMode, exited>>
envVars == <<termVars, claudePane, hook, pasteVars, screenVars, paneVars, procVars>>
vars == <<fsVars, memVars, selVars, editVars, timerVars, envVars, activating, nextId, sent>>

\* the viewport heights a resize may report
Heights == {10, 14}
\* process.stdout.rows at construction: the tallest of the heights
DefaultHeight == CHOOSE h \in Heights : \A g \in Heights : g <= h

\* no terminal report has repainted the screen
NoFrame == [rows |-> 0]

\* no run of the hook is under way
HookIdle == [pc |-> "idle", tasks |-> <<>>, done |-> <<>>, matched |-> {}]

\* the characters of the model's strings
Chars == {"a", " "}
\* the viewport widths a resize may report (content width = width - 10)
Widths == {9, 10, 11, 12}
\* process.stdout.columns at construction: the widest of the widths
DefaultWidth == CHOOSE w \in Widths : \A v \in Widths : v <= w

(***************************************************************************)
(* Persistence layer: src/src/persistence/store.ts.                        *)
(***************************************************************************)
\* Task without priority (addTask sets none)
NoPriority == 0

NewTask(id, content) ==
  [id |-> id, content |-> content, createdAt |-> id, priority |-> NoPriority]

\* an addTask that puts the new task first
addTaskFirst(file, id, content) == <<NewTask(id, content)>> \o file

\* addTask(content), as the new contents of tasks.json
addTask(file, id, content) == Append(file, NewTask(id, content))

\* a search that settles for the first task of the file
FindIndexFirst(file, id) == IF Len(file) > 0 THEN 1 ELSE 0

\* tasks.findIndex((t) => t.id === id), 1-based, 0 for "not found"
FindIndex(file, id) ==
  IF \E i \in 1..Len(file) : file[i].id = id
  THEN CHOOSE i \in 1..Len(file) :
         file[i].id = id /\ \A j \in 1..(i - 1) : file[j].id # id
  ELSE 0

\* updateTask(id, content): the first task with that id gets the content;
\* the file is left alone when there is none
updateTask(file, id, content) ==
  IF FindIndex(file, id) = 0 THEN file
  ELSE [file EXCEPT ![FindIndex(file, id)].content = content]

\* a splice that removes nothing
SpliceKeepsAll(file, i) == file

\* tasks.splice(taskIndex, 1)
Splice(file, i) == SubSeq(file, 1, i - 1) \o SubSeq(file, i + 1, Len(file))

\* removeTask(id)
removeTask(file, id) == SelectSeq(file, LAMBDA t : t.id # id)

\* an ActiveTask that loses the content
AsActiveBlank(t) == [id |-> t.id, content |-> <<>>]

\* the ActiveTask activateTask and setActiveTask build from a task
AsActive(t) == [id |-> t.id, content |-> t.content]

\* appendToHistory(content)
appendToHistory(log, content) == Append(log, content)

\* tasks.json and active.json holding text that JSON.parse rejects (a torn
\* write, a hand-damaged file): the value stands for the unparsed text
UnparsableList ==
  <<[id |-> 0 - 1, content |-> <<>>, createdAt |-> 0, priority |-> NoPriority]>>
UnparsableActive == [id |-> 0 - 1, content |-> <<>>]

\* a read that lets the parse error out instead of the default
readUncaught(parsed, unparsable, defaultValue) == parsed

\* readProjectJson(filename, defaultValue): the parsed document, or the
\* default when the text does not parse (a missing file and a file holding
\* the default read alike)
readProjectJson(parsed, unparsable, defaultValue) ==
  IF parsed = unparsable THEN defaultValue ELSE parsed

(***************************************************************************)
(* done.json as the sidebar uses it.  getRecentlyDone, removeFromDone and  *)
(* returnToActive are imported by RawSidebar.tsx (lines 637-639) from a    *)
(* store revision that is not among the sources; they follow the           *)
(* specification's data model (DoneTask, "confirm-remove", "return to      *)
(* in-progress").                                                          *)
(***************************************************************************)
\* removeFromDone(id)
removeFromDone(file, id) == SelectSeq(file, LAMBDA t : t.id # id)

\* the done entry returnToActive(id) makes the ActiveTask (None if absent)
DoneEntry(file, id) ==
  IF \E i \in 1..Len(file) : file[i].id = id
  THEN AsActive(file[CHOOSE i \in 1..Len(file) : file[i].id = id])
  ELSE None

(***************************************************************************)
(* The sidebar, latest revision: class RawSidebar of                       *)
(* src/src/components/RawSidebar.tsx, lines 737-1722.                      *)
(***************************************************************************)
\* a comparator that puts the tasks without priority first
CompareTasksUnsetFirst(a, b) ==
  IF a.priority # NoPriority /\ b.priority # NoPriority THEN a.priority - b.priority
  ELSE IF a.priority # NoPriority THEN 1
  ELSE IF b.priority # NoPriority THEN 0 - 1
  ELSE a.createdAt - b.createdAt

\* getTasks() and getActiveTask()
getTasks == readProjectJson(fsTasks, UnparsableList, <<>>)
getActiveTask == readProjectJson(fsActive, UnparsableActive, None)

\* the comparator of getSortedTasks: negative when a sorts before b
CompareTasks(a, b) ==
  IF a.priority # NoPriority /\ b.priority # NoPriority THEN a.priority - b.priority
  ELSE IF a.priority # NoPriority THEN 0 - 1
  ELSE IF b.priority # NoPriority THEN 1
  ELSE a.createdAt - b.createdAt

\* one step of the stable sort: t goes before the first element it
\* compares less than
RECURSIVE SortedInsert(_, _)
SortedInsert(sorted, t) ==
  IF sorted = <<>> THEN <<t>>
  ELSE IF CompareTasks(t, Head(sorted)) < 0 THEN <<t>> \o sorted
  ELSE <<Head(sorted)>> \o SortedInsert(Tail(sorted), t)

RECURSIVE SortTasks(_)
SortTasks(ts) ==
  IF ts = <<>> THEN <<>>
  ELSE SortedInsert(SortTasks(SubSeq(ts, 1, Len(ts) - 1)), ts[Len(ts)])

\* getSortedTasks()
getSortedTasks == SortTasks(tasks)

\* this.state.tasks[this.state.selectedIndex]: the item at the index in
\* the persisted order
SelectedPersisted ==
  IF selectedIndex >= 0 /\ selectedIndex < Len(tasks)
  THEN tasks[selectedIndex + 1]
  ELSE None

\* sortedTasks[this.state.selectedIndex], None for undefined
SelectedTask ==
  IF selectedIndex >= 0 /\ selectedIndex < Len(getSortedTasks)
  THEN getSortedTasks[selectedIndex + 1]
  ELSE None

\* this.state.doneTasks[this.state.doneSelectedIndex], None for undefined
SelectedDone ==
  IF doneSelectedIndex >= 0 /\ doneSelectedIndex < Len(doneTasks)
  THEN doneTasks[doneSelectedIndex + 1]
  ELSE None

\* a key reaches handleNormalMode: the process runs, no input mode, and the
\* event loop is not inside another handler
InNormalMode ==
  running /\ inputMode = "none" /\ activating = None /\ ~isPasting /\ stdin = <<>>

\* a key reaches handleInputMode
InInputMode ==
  running /\ inputMode # "none" /\ activating = None /\ ~isPasting /\ stdin = <<>>

\* loadData(): the state is replaced by what the files hold (when nothing
\* differs the assignment changes nothing)
loadData ==
  /\ tasks' = getTasks'
  /\ activeTask' = getActiveTask'
  /\ doneTasks' = fsDone'

\* a pause that clears the pollInterval only
pausePollOnly ==
  /\ pollInterval' = FALSE
  /\ UNCHANGED completionInterval

\* pausePolling()
pausePolling ==
  /\ pollInterval' = FALSE
  /\ completionInterval' = FALSE

\* restartPolling(): the pollInterval is set again; nothing else is
restartPolling ==
  /\ pollInterval' = TRUE
  /\ UNCHANGED completionInterval

\* an exit that keeps the buffer and the cursor
exitKeepsBuffer ==
  /\ inputMode' = "none"
  /\ editingTaskId' = 0
  /\ restartPolling
  /\ UNCHANGED <<inputBuffer, inputCursor>>

\* an exit that keeps the id of the edited task
exitKeepsTarget ==
  /\ inputBuffer' = <<>>
  /\ inputCursor' = 0
  /\ inputMode' = "none"
  /\ restartPolling
  /\ UNCHANGED editingTaskId

\* exitInputMode()
exitInputMode ==
  /\ inputBuffer' = <<>>
  /\ inputCursor' = 0
  /\ inputMode' = "none"
  /\ editingTaskId' = 0
  /\ restartPolling

\* handleNormalMode: Up arrow or k
KeyUp ==
  /\ InNormalMode
  /\ IF selectedSection = "queue"
     THEN IF Len(tasks) = 0
          THEN IF Len(doneTasks) > 0
               THEN /\ selectedSection' = "done"
                    /\ doneSelectedIndex' = Len(doneTasks) - 1
                    /\ UNCHANGED selectedIndex
               ELSE UNCHANGED selVars
          ELSE IF selectedIndex > 0
               THEN /\ selectedIndex' = selectedIndex - 1
                    /\ UNCHANGED <<selectedSection, doneSelectedIndex>>
               ELSE IF Len(doneTasks) > 0
                    THEN /\ selectedSection' = "done"
                         /\ doneSelectedIndex' = Min(Len(doneTasks) - 1, 4)
                         /\ UNCHANGED selectedIndex
                    ELSE /\ selectedIndex' = Len(tasks) - 1
                         /\ UNCHANGED <<selectedSection, doneSelectedIndex>>
     ELSE IF doneSelectedIndex > 0
          THEN /\ doneSelectedIndex' = doneSelectedIndex - 1
               /\ UNCHANGED <<selectedSection, selectedIndex>>
          ELSE IF Len(tasks) > 0
               THEN /\ selectedSection' = "queue"
                    /\ selectedIndex' = Len(tasks) - 1
                    /\ UNCHANGED doneSelectedIndex
               ELSE /\ doneSelectedIndex' = Min(Len(doneTasks) - 1, 4)
                    /\ UNCHANGED <<selectedSection, selectedIndex>>
  /\ UNCHANGED <<fsVars, memVars, editVars, timerVars, envVars, activating, nextId, sent>>

\* handleNormalMode: Down arrow or j
KeyDown ==
  /\ InNormalMode
  /\ IF selectedSection = "queue"
     THEN IF Len(tasks) = 0
          THEN IF Len(doneTasks) > 0
               THEN /\ selectedSection' = "done"
                    /\ doneSelectedIndex' = 0
                    /\ UNCHANGED selectedIndex
               ELSE UNCHANGED selVars
          ELSE IF selectedIndex < Len(tasks) - 1
               THEN /\ selectedIndex' = selectedIndex + 1
                    /\ UNCHANGED <<selectedSection, doneSelectedIndex>>
               ELSE IF Len(doneTasks) > 0
                    THEN /\ selectedSection' = "done"
                         /\ doneSelectedIndex' = 0
                         /\ UNCHANGED selectedIndex
                    ELSE /\ selectedIndex' = 0
                         /\ UNCHANGED <<selectedSection, doneSelectedIndex>>
     ELSE IF doneSelectedIndex < Min(Len(doneTasks) - 1, 4)
          THEN /\ doneSelectedIndex' = doneSelectedIndex + 1
               /\ UNCHANGED <<selectedSection, selectedIndex>>
          ELSE IF Len(tasks) > 0
               THEN /\ selectedSection' = "queue"
                    /\ selectedIndex' = 0
                    /\ UNCHANGED doneSelectedIndex
               ELSE /\ doneSelectedIndex' = 0
                    /\ UNCHANGED <<selectedSection, selectedIndex>>
  /\ UNCHANGED <<fsVars, memVars, editVars, timerVars, envVars, activating, nextId, sent>>

\* stop(): the terminal modes are restored, the listeners removed and both
\* intervals cleared
stop ==
  /\ running' = FALSE
  /\ rawMode' = FALSE
  /\ pollInterval' = FALSE
  /\ completionInterval' = FALSE

\* handleNormalMode: Escape: stop(), onClose, process.exit(0)
KeyEscape ==
  /\ InNormalMode
  /\ stop
  /\ exited' = TRUE
  /\ UNCHANGED <<fsVars, memVars, selVars, editVars, stableCount, checking, lastObs, autoDone,
                 width, focused, claudePane, hook, pasteVars, screenVars, paneVars,
                 activating, nextId, sent>>

\* the process receives a termination signal (SIGTERM, SIGHUP): no handler is
\* installed, so the process ends at once and none of its callbacks runs
\* any more; nothing of stop() has run
Signal ==
  /\ ~exited
  /\ running
  /\ exited' = TRUE
  /\ running' = FALSE
  /\ UNCHANGED <<fsVars, memVars, selVars, editVars, timerVars, width, focused, claudePane,
                 hook, pasteVars, screenVars, paneVars, rawMode, activating, nextId, sent>>

\* handleNormalMode: number key n (1-9)
KeyDigit(n) ==
  /\ InNormalMode
  /\ n - 1 < Len(getSortedTasks)
  /\ selectedSection' = "queue"
  /\ selectedIndex' = n - 1
  /\ UNCHANGED <<doneSelectedIndex, fsVars, memVars, editVars, timerVars, envVars,
                 activating, nextId, sent>>

\* a call of sendToClaudePane(text) or focusClaudePane() by the dispatch
\* numbered dispatch: an async function that awaits getClaudePaneId() (a
\* tmux list-panes process) and then its own tmux command; the handler does
\* not await it
PaneCall(kind, text, dispatch) ==
  [kind |-> kind, text |-> text, dispatch |-> dispatch, pc |-> "listing"]

\* handleNormalMode: Enter, up to the first file write of activateTask.
\* The text is handed to sendToClaudePane, then activateTask reads
\* tasks.json; a task it does not find ends activateTask with no write, and
\* the handler goes on to loadData.  A task it finds is spliced out and
\* tasks.json is written: KeyEnterActivate is the rest of the handler.
KeyEnter ==
  /\ InNormalMode
  /\ selectedSection = "queue"
  /\ SelectedTask # None
  /\ sent' = Append(sent, SelectedTask.content)
  /\ LET taskIndex == FindIndex(getTasks, SelectedTask.id)
         send == PaneCall("send", SelectedTask.content, Len(sent) + 1)
         focus == PaneCall("focus", <<>>, Len(sent) + 1)
     IN IF taskIndex = 0
        THEN /\ UNCHANGED <<fsVars, activating>>
             /\ loadData
             /\ selectedIndex' = Max(0, selectedIndex - 1)
             /\ paneCalls' = paneCalls \o <<send, focus>>
        ELSE /\ fsTasks' = Splice(getTasks, taskIndex)
             /\ activating' = getTasks[taskIndex]
             /\ paneCalls' = Append(paneCalls, send)
             /\ UNCHANGED <<fsActive, fsDone, history, memVars, selectedIndex>>
  /\ UNCHANGED <<selectedSection, doneSelectedIndex, editVars, timerVars, termVars,
                 claudePane, hook, pasteVars, screenVars, procVars, paneLog, nextId>>

\* handleNormalMode: Enter, from activateTask's write of active.json on:
\* loadData, the selection moves up, render, focusClaudePane
KeyEnterActivate ==
  /\ running
  /\ activating # None
  /\ fsActive' = AsActive(activating)
  /\ activating' = None
  /\ UNCHANGED <<fsTasks, fsDone, history>>
  /\ loadData
  /\ selectedIndex' = Max(0, selectedIndex - 1)
  /\ paneCalls' = Append(paneCalls, PaneCall("focus", <<>>, Len(sent)))
  /\ UNCHANGED <<selectedSection, doneSelectedIndex, editVars, timerVars, termVars,
                 claudePane, hook, pasteVars, screenVars, procVars, paneLog, nextId, sent>>

\* getClaudePaneId() of a call returns: tmux list-panes has ended, and
\* with a pane found the call starts its tmux command (send-keys or
\* select-pane); without one it returns false
PaneListed(k) ==
  /\ running
  /\ activating = None
  /\ k \in 1..Len(paneCalls)
  /\ paneCalls[k].pc = "listing"
  /\ paneCalls' = [paneCalls EXCEPT ![k].pc = IF claudePane THEN "command" ELSE "done"]
  /\ UNCHANGED <<fsVars, memVars, selVars, editVars, timerVars, termVars, claudePane, hook,
                 pasteVars, screenVars, procVars, paneLog, activating, nextId, sent>>

\* the tmux command of a call takes effect in the assistant's pane
PaneCommand(k) ==
  /\ running
  /\ activating = None
  /\ k \in 1..Len(paneCalls)
  /\ paneCalls[k].pc = "command"
  /\ paneCalls' = [paneCalls EXCEPT ![k].pc = "done"]
  /\ paneLog' = Append(paneLog, [kind |-> paneCalls[k].kind, text |-> paneCalls[k].text,
                                 dispatch |-> paneCalls[k].dispatch])
  /\ UNCHANGED <<fsVars, memVars, selVars, editVars, timerVars, termVars, claudePane, hook,
                 pasteVars, screenVars, procVars, activating, nextId, sent>>

\* handleNormalMode: 'a'
KeyA ==
  /\ InNormalMode
  /\ pausePolling
  /\ selectedSection' = "queue"
  /\ inputMode' = "add"
  /\ leftBy' = "none"
  /\ inputBuffer' = <<>>
  /\ inputCursor' = 0
  /\ UNCHANGED <<editingTaskId, selectedIndex, doneSelectedIndex, fsVars, memVars,
                 stableCount, checking, lastObs, autoDone, envVars, activating, nextId, sent>>

\* handleNormalMode: 'e'
KeyE ==
  /\ InNormalMode
  /\ selectedSection = "queue"
  /\ SelectedTask # None
  /\ pausePolling
  /\ inputMode' = "edit"
  /\ leftBy' = "none"
  /\ editingTaskId' = SelectedTask.id
  /\ inputBuffer' = SelectedTask.content
  /\ inputCursor' = Len(SelectedTask.content)
  /\ UNCHANGED <<selVars, fsVars, memVars, stableCount, checking, lastObs, autoDone, envVars,
                 activating, nextId, sent>>

\* handleNormalMode: 'd' in the queue section
KeyDQueue ==
  /\ InNormalMode
  /\ selectedSection = "queue"
  /\ SelectedTask # None
  /\ fsTasks' = removeTask(getTasks, SelectedTask.id)
  /\ tasks' = getTasks'
  /\ selectedIndex' = Max(0, selectedIndex - 1)
  /\ UNCHANGED <<fsActive, fsDone, history, activeTask, doneTasks, selectedSection,
                 doneSelectedIndex, editVars, timerVars, envVars, activating, nextId, sent>>

\* handleNormalMode: 'd' in the Review section
KeyDDone ==
  /\ InNormalMode
  /\ selectedSection # "queue"
  /\ SelectedDone # None
  /\ fsDone' = removeFromDone(fsDone, SelectedDone.id)
  /\ doneTasks' = fsDone'
  /\ IF Len(doneTasks') = 0
     THEN /\ selectedSection' = "queue"
          /\ selectedIndex' = Max(0, Len(tasks) - 1)
          /\ UNCHANGED doneSelectedIndex
     ELSE /\ doneSelectedIndex' = Min(doneSelectedIndex, Len(doneTasks') - 1)
          /\ UNCHANGED <<selectedSection, selectedIndex>>
  /\ UNCHANGED <<fsTasks, fsActive, history, tasks, activeTask, editVars, timerVars,
                 envVars, activating, nextId, sent>>

\* handleNormalMode: 'r' in the Review section
KeyR ==
  /\ InNormalMode
  /\ selectedSection = "done"
  /\ SelectedDone # None
  /\ IF DoneEntry(fsDone, SelectedDone.id) # None
     THEN /\ fsActive' = DoneEntry(fsDone, SelectedDone.id)
          /\ fsDone' = removeFromDone(fsDone, SelectedDone.id)
     ELSE UNCHANGED <<fsActive, fsDone>>
  /\ UNCHANGED <<fsTasks, history>>
  /\ loadData
  /\ IF Len(doneTasks') = 0
     THEN /\ selectedSection' = "queue"
          /\ selectedIndex' = Max(0, Len(tasks') - 1)
          /\ UNCHANGED doneSelectedIndex
     ELSE /\ doneSelectedIndex' = Min(doneSelectedIndex, Max(0, Len(doneTasks') - 1))
          /\ UNCHANGED <<selectedSection, selectedIndex>>
  /\ UNCHANGED <<editVars, timerVars, envVars, activating, nextId, sent>>

\* the pollInterval callback
PollTick ==
  /\ running
  /\ pollInterval
  /\ activating = None
  /\ inputMode = "none"
  /\ UNCHANGED fsVars
  /\ loadData
  /\ lastObs' = IF fsTasks = UnparsableList \/ fsActive = UnparsableActive
                THEN "unparsable" ELSE lastObs
  /\ UNCHANGED <<selVars, editVars, pollInterval, completionInterval, stableCount, checking,
                 autoDone, envVars, activating, nextId, sent>>

\* tasks.json or active.json is left holding text that does not parse
Damage(doc) ==
  /\ running
  /\ activating = None
  /\ IF doc = "tasks.json"
     THEN fsTasks' = UnparsableList /\ UNCHANGED fsActive
     ELSE fsActive' = UnparsableActive /\ UNCHANGED fsTasks
  /\ UNCHANGED <<fsDone, history, memVars, selVars, editVars, timerVars, envVars,
                 activating, nextId, sent>>

\* the completionInterval callback: checkCompletion() up to its await
CompletionTick ==
  /\ running
  /\ completionInterval
  /\ activating = None
  /\ ~checking
  /\ activeTask # None
  /\ checking' = TRUE
  /\ UNCHANGED <<fsVars, memVars, selVars, editVars, pollInterval, completionInterval,
                 stableCount, lastObs, autoDone, envVars, activating, nextId, sent>>

\* a completion that logs the task and leaves active.json as it is
completeWithoutClear ==
  IF getActiveTask # None
  THEN /\ history' = appendToHistory(history, getActiveTask.content)
       /\ UNCHANGED fsActive
  ELSE UNCHANGED <<history, fsActive>>

\* completeActiveTask(), on the files
completeActiveTask ==
  IF getActiveTask # None
  THEN /\ history' = appendToHistory(history, getActiveTask.content)
       /\ fsActive' = None
  ELSE UNCHANGED <<history, fsActive>>

\* what capturing the assistant's pane can give a completion check: text
\* whose last line is the prompt, other text, null (no pane, or the capture
\* command failed), or an exception out of the call
Captures == {"prompt", "output", "null", "throws"}

\* a prompt check that takes a failed capture for the prompt
promptUnlessOutput(capture) == capture # "output"

\* isClaudeAtPrompt(), from what captureClaudePane returned
isClaudeAtPrompt(capture) == capture = "prompt"

\* checkCompletion() from the end of its await on: without a pane the
\* capture gives null or the call throws
CompletionResume(capture) ==
  /\ running
  /\ checking
  /\ activating = None
  /\ ~claudePane => capture \in {"null", "throws"}
  /\ checking' = FALSE
  /\ IF capture # "throws" /\ isClaudeAtPrompt(capture)
     THEN /\ completeActiveTask
          /\ UNCHANGED <<fsTasks, fsDone>>
          /\ loadData
     ELSE UNCHANGED <<fsVars, memVars>>
  /\ autoDone' = IF capture # "throws" /\ isClaudeAtPrompt(capture) /\ getActiveTask # None
                 THEN autoDone \cup {getActiveTask.id} ELSE autoDone
  /\ lastObs' = IF capture \in {"null", "throws"} THEN "failed" ELSE "none"
  /\ UNCHANGED <<selVars, editVars, pollInterval, completionInterval, stableCount,
                 envVars, activating, nextId, sent>>

\* the assistant's pane is closed, or one is opened: getClaudePaneId()
\* lists the panes of the window anew at every call
PaneChange ==
  /\ running
  /\ activating = None
  /\ claudePane' = ~claudePane
  /\ UNCHANGED <<fsVars, memVars, selVars, editVars, timerVars, termVars, hook, pasteVars,
                 screenVars, paneVars, procVars, activating, nextId, sent>>

(***************************************************************************)
(* The todo-sync hook: src/src/sync-todos.ts, autoCompleteSidebarTasks.    *)
(***************************************************************************)
\* done.json keeps the 10 most recent entries
DoneLimit == 10

\* new Date() of a hook run: later than the completedAt of every entry the
\* run has read
Now(done) ==
  1 + (IF done = <<>> THEN 0
       ELSE CHOOSE m \in {done[i].completedAt : i \in 1..Len(done)} :
              \A i \in 1..Len(done) : done[i].completedAt <= m)

\* the DoneTask the hook makes of a matched task
DoneTask(t, now) == [id |-> t.id, content |-> t.content, completedAt |-> now]

\* a done list with the old entries first
updatedDoneOldFirst(newDone, done) ==
  SubSeq(done \o newDone, 1, Min(Len(newDone) + Len(done), DoneLimit))

\* updatedDone: [...newDone, ...done].slice(0, 10)
updatedDone(newDone, done) ==
  SubSeq(newDone \o done, 1, Min(Len(newDone) + Len(done), DoneLimit))

\* the task contents a completed todo of the hook may be similar to
HookContents == {<<"a">>, <<"b">>}

\* autoCompleteSidebarTasks, file access by file access.  The hook is a
\* process of its own: its accesses fall anywhere among the sidebar's.
\* It reads tasks.json
HookReadTasks(matched) ==
  /\ hook.pc = "idle"
  /\ hook' = [pc |-> "readDone", tasks |-> fsTasks, done |-> <<>>, matched |-> matched]
  /\ UNCHANGED <<fsVars, memVars, selVars, editVars, timerVars, termVars, claudePane,
                 pasteVars, screenVars, paneVars, procVars, activating, nextId, sent>>

\* the tasks the hook has read that no completed todo is similar to
HookRemaining == SelectSeq(hook.tasks, LAMBDA t : t.content \notin hook.matched)

\* the tasks the hook has read that a completed todo is similar to
HookNewDone ==
  MapSeq(SelectSeq(hook.tasks, LAMBDA t : t.content \in hook.matched),
         LAMBDA t : DoneTask(t, Now(hook.done)))

\* it reads done.json, and ends there when no task has matched
HookReadDone ==
  /\ hook.pc = "readDone"
  /\ hook' = IF Len(HookNewDone) > 0
             THEN [hook EXCEPT !.pc = "writeTasks", !.done = fsDone]
             ELSE HookIdle
  /\ UNCHANGED <<fsVars, memVars, selVars, editVars, timerVars, termVars, claudePane,
                 pasteVars, screenVars, paneVars, procVars, activating, nextId, sent>>

\* it writes the tasks that did not match to tasks.json
HookWriteTasks ==
  /\ hook.pc = "writeTasks"
  /\ fsTasks' = HookRemaining
  /\ hook' = [hook EXCEPT !.pc = "writeDone"]
  /\ UNCHANGED <<fsActive, fsDone, history, memVars, selVars, editVars, timerVars, termVars,
                 claudePane, pasteVars, screenVars, paneVars, procVars, activating, nextId, sent>>

\* it writes the matched tasks and the old entries to done.json
HookWriteDone ==
  /\ hook.pc = "writeDone"
  /\ fsDone' = updatedDone(HookNewDone, hook.done)
  /\ hook' = HookIdle
  /\ UNCHANGED <<fsTasks, fsActive, history, memVars, selVars, editVars, timerVars, termVars,
                 claudePane, pasteVars, screenVars, paneVars, procVars, activating, nextId, sent>>

\* the hook, with matched the contents its completed todos are similar to
SyncTodos(matched) ==
  LET remaining == SelectSeq(fsTasks, LAMBDA t : t.content \notin matched)
      newDone == MapSeq(SelectSeq(fsTasks, LAMBDA t : t.content \in matched),
                        LAMBDA t : DoneTask(t, Now(fsDone)))
  IN /\ Len(newDone) > 0
     /\ fsTasks' = remaining
     /\ fsDone' = updatedDone(newDone, fsDone)
     /\ UNCHANGED <<fsActive, history, memVars, selVars, editVars, timerVars, envVars,
                    activating, nextId, sent>>

(***************************************************************************)
(* handleInputMode and handlePaste of the latest revision.                 *)
(***************************************************************************)
\* this.width - 10
MaxWidth == width - 10

\* while (pos > 0 && inputBuffer[pos - 1] === ' ') pos--
RECURSIVE SkipSpacesBack(_, _)
SkipSpacesBack(buf, pos) ==
  IF JsGt(pos, 0) /\ CharAt(buf, pos - 1) = " " THEN SkipSpacesBack(buf, pos - 1) ELSE pos

\* while (pos > 0 && inputBuffer[pos - 1] !== ' ') pos--
RECURSIVE SkipWordBack(_, _)
SkipWordBack(buf, pos) ==
  IF JsGt(pos, 0) /\ CharAt(buf, pos - 1) # " " THEN SkipWordBack(buf, pos - 1) ELSE pos

\* while (pos < inputBuffer.length && inputBuffer[pos] !== ' ') pos++
RECURSIVE SkipWordFwd(_, _)
SkipWordFwd(buf, pos) ==
  IF JsLt(pos, Len(buf)) /\ CharAt(buf, pos) # " " THEN SkipWordFwd(buf, pos + 1) ELSE pos

\* while (pos < inputBuffer.length && inputBuffer[pos] === ' ') pos++
RECURSIVE SkipSpacesFwd(_, _)
SkipSpacesFwd(buf, pos) ==
  IF JsLt(pos, Len(buf)) /\ CharAt(buf, pos) = " " THEN SkipSpacesFwd(buf, pos + 1) ELSE pos

\* the start of the previous word (Option+Left, Ctrl+W)
WordStart(buf, pos) == SkipWordBack(buf, SkipSpacesBack(buf, pos))

\* the end of the next word (Option+Right)
WordEnd(buf, pos) == SkipSpacesFwd(buf, SkipWordFwd(buf, pos))

\* Ctrl+A: Math.floor(inputCursor / maxWidth) * maxWidth
LineStart(cursor, maxWidth) == FloorDivTimes(cursor, maxWidth, maxWidth)

\* Ctrl+E: Math.min((visualLine + 1) * maxWidth, inputBuffer.length)
LineEnd(buf, cursor, maxWidth) ==
  IF IsNaN(cursor) \/ maxWidth = 0 THEN NaN
  ELSE Min((FloorDiv(cursor, maxWidth) + 1) * maxWidth, Len(buf))

\* inputBuffer.slice(0, inputCursor) + text + inputBuffer.slice(inputCursor)
InsertAt(buf, cursor, text) == Slice(buf, 0, cursor) \o text \o SliceFrom(buf, cursor)

\* the handlers below leave everything but the edit buffer alone
EditOnly ==
  UNCHANGED <<inputMode, editingTaskId, leftBy, fsVars, memVars, selVars, timerVars, envVars,
              activating, nextId, sent>>

\* the buffer holds no character other than white space
IsBlank(s) == \A i \in 1..Len(s) : s[i] \in {" ", "\n", "\r"}

\* handleInputMode: Enter
InputEnter ==
  /\ InInputMode
  /\ IF Trim(inputBuffer) # <<>>
     THEN /\ IF inputMode = "add"
             THEN /\ fsTasks' = addTask(getTasks, nextId, Trim(inputBuffer))
                  /\ nextId' = nextId + 1
             ELSE IF inputMode = "edit" /\ editingTaskId # 0
             THEN /\ fsTasks' = IF FindIndex(getTasks, editingTaskId) = 0 THEN fsTasks
                                 ELSE updateTask(getTasks, editingTaskId, Trim(inputBuffer))
                  /\ UNCHANGED nextId
             ELSE UNCHANGED <<fsTasks, nextId>>
          /\ tasks' = getTasks'
     ELSE UNCHANGED <<fsTasks, nextId, tasks>>
  /\ exitInputMode
  /\ leftBy' = IF IsBlank(inputBuffer) THEN "blank" ELSE "enter"
  /\ UNCHANGED <<fsActive, fsDone, history, activeTask, doneTasks, selVars, stableCount,
                 checking, lastObs, autoDone, envVars, activating, sent>>

\* handleInputMode: Escape
InputEscape ==
  /\ InInputMode
  /\ exitInputMode
  /\ leftBy' = "escape"
  /\ UNCHANGED <<fsVars, memVars, selVars, stableCount, checking, lastObs, autoDone, envVars,
                 activating, nextId, sent>>

\* handleInputMode: Backspace
InputBackspace ==
  /\ InInputMode
  /\ JsGt(inputCursor, 0)
  /\ inputBuffer' = Slice(inputBuffer, 0, inputCursor - 1) \o SliceFrom(inputBuffer, inputCursor)
  /\ inputCursor' = inputCursor - 1
  /\ EditOnly

\* handleInputMode: Left
InputLeft ==
  /\ InInputMode
  /\ JsGt(inputCursor, 0)
  /\ inputCursor' = inputCursor - 1
  /\ UNCHANGED inputBuffer
  /\ EditOnly

\* Right without its check against the buffer's length
InputRightUnchecked ==
  /\ InInputMode
  /\ inputCursor' = inputCursor + 1
  /\ UNCHANGED inputBuffer
  /\ EditOnly

\* handleInputMode: Right
InputRight ==
  /\ InInputMode
  /\ JsLt(inputCursor, Len(inputBuffer))
  /\ inputCursor' = inputCursor + 1
  /\ UNCHANGED inputBuffer
  /\ EditOnly

\* handleInputMode: Up, one visual line up
InputUp ==
  /\ InInputMode
  /\ JsGe(inputCursor, MaxWidth)
  /\ inputCursor' = JsSub(inputCursor, MaxWidth)
  /\ UNCHANGED inputBuffer
  /\ EditOnly

\* handleInputMode: Down, one visual line down or to the end
InputDown ==
  /\ InInputMode
  /\ LET newPos == JsAdd(inputCursor, MaxWidth)
     IN IF JsLe(newPos, Len(inputBuffer))
        THEN inputCursor' = newPos
        ELSE /\ JsLt(inputCursor, Len(inputBuffer))
             /\ inputCursor' = Len(inputBuffer)
  /\ UNCHANGED inputBuffer
  /\ EditOnly

\* handleInputMode: Option+Left
InputWordLeft ==
  /\ InInputMode
  /\ inputCursor' = WordStart(inputBuffer, inputCursor)
  /\ UNCHANGED inputBuffer
  /\ EditOnly

\* handleInputMode: Option+Right
InputWordRight ==
  /\ InInputMode
  /\ inputCursor' = WordEnd(inputBuffer, inputCursor)
  /\ UNCHANGED inputBuffer
  /\ EditOnly

\* handleInputMode: Ctrl+A, start of the visual line
InputCtrlA ==
  /\ InInputMode
  /\ inputCursor' = LineStart(inputCursor, MaxWidth)
  /\ UNCHANGED inputBuffer
  /\ EditOnly

\* handleInputMode: Ctrl+E, end of the visual line
InputCtrlE ==
  /\ InInputMode
  /\ inputCursor' = LineEnd(inputBuffer, inputCursor, MaxWidth)
  /\ UNCHANGED inputBuffer
  /\ EditOnly

\* handleInputMode: Ctrl+U
InputCtrlU ==
  /\ InInputMode
  /\ inputBuffer' = SliceFrom(inputBuffer, inputCursor)
  /\ inputCursor' = 0
  /\ EditOnly

\* handleInputMode: Ctrl+K
InputCtrlK ==
  /\ InInputMode
  /\ inputBuffer' = Slice(inputBuffer, 0, inputCursor)
  /\ UNCHANGED inputCursor
  /\ EditOnly

\* handleInputMode: Ctrl+W
InputCtrlW ==
  /\ InInputMode
  /\ JsGt(inputCursor, 0)
  /\ LET pos == WordStart(inputBuffer, inputCursor)
     IN /\ inputBuffer' = Slice(inputBuffer, 0, pos) \o SliceFrom(inputBuffer, inputCursor)
        /\ inputCursor' = pos
  /\ EditOnly

\* handleInputMode: a printable character
InputChar(c) ==
  /\ InInputMode
  /\ inputBuffer' = InsertAt(inputBuffer, inputCursor, <<c>>)
  /\ inputCursor' = JsAdd(inputCursor, 1)
  /\ EditOnly

\* the split lines, neither trimmed nor filtered
PasteLinesRaw(content) == SplitLines(content, <<>>)

\* handlePaste: content.split(/\r?\n/).map(l => l.trim()).filter(l => l.length > 0)
PasteLines(content) ==
  SelectSeq(MapSeq(SplitLines(content, <<>>), Trim), LAMBDA l : Len(l) > 0)

\* lines.forEach(line => addTask(line)), as the new contents of tasks.json
RECURSIVE AddTasks(_, _, _)
AddTasks(file, id, lines) ==
  IF lines = <<>> THEN file
  ELSE AddTasks(addTask(file, id, Head(lines)), id + 1, Tail(lines))

\* handlePaste(content): nothing outside the input modes
handlePaste(content) ==
  IF inputMode = "none"
  THEN UNCHANGED <<editVars, timerVars, fsTasks, tasks, nextId>>
  ELSE IF inputMode = "add"
     THEN LET lines == PasteLines(content)
          IN IF Len(lines) = 0
             THEN UNCHANGED <<editVars, timerVars, fsTasks, tasks, nextId>>
             ELSE IF Len(lines) = 1
             THEN /\ inputBuffer' = InsertAt(inputBuffer, inputCursor, lines[1])
                  /\ inputCursor' = JsAdd(inputCursor, Len(lines[1]))
                  /\ UNCHANGED <<inputMode, editingTaskId, leftBy, timerVars, fsTasks, tasks, nextId>>
             ELSE /\ fsTasks' = AddTasks(getTasks, nextId, lines)
                  /\ nextId' = nextId + Len(lines)
                  /\ tasks' = getTasks'
                  /\ exitInputMode
                  /\ leftBy' = "paste"
                  /\ UNCHANGED <<stableCount, checking, lastObs, autoDone>>
     ELSE LET text == Trim(NewlinesToSpaces(content))
          IN /\ inputBuffer' = InsertAt(inputBuffer, inputCursor, text)
             /\ inputCursor' = JsAdd(inputCursor, Len(text))
             /\ UNCHANGED <<inputMode, editingTaskId, leftBy, timerVars, fsTasks, tasks, nextId>>

\* handleInput for a chunk that holds a whole bracketed paste
\* (ESC[200~ content ESC[201~) while an input mode is active
Paste(content) ==
  /\ InInputMode
  /\ handlePaste(content)
  /\ UNCHANGED <<fsActive, fsDone, history, activeTask, doneTasks, selVars, envVars,
                 activating, sent>>

\* the escape character, and the markers of a bracketed paste
ESC == "ESC"
pasteStart == <<ESC, "[", "2", "0", "0", "~">>
pasteEnd == <<ESC, "[", "2", "0", "1", "~">>

\* str.indexOf(m) + 1: the place of the first m in str, 0 when there is none
IndexOf(str, m) ==
  LET found == {i \in 1..(Len(str) - Len(m) + 1) : SubSeq(str, i, i + Len(m) - 1) = m}
  IN IF found = {} THEN 0 ELSE CHOOSE i \in found : \A j \in found : i <= j

\* str.includes(m)
Includes(str, m) == IndexOf(str, m) # 0

\* str.split(m)[0]
BeforeFirst(str, m) ==
  IF Includes(str, m) THEN SubSeq(str, 1, IndexOf(str, m) - 1) ELSE str

\* str.split(m)[1] || ""
AfterFirst(str, m) ==
  IF Includes(str, m)
  THEN BeforeFirst(SubSeq(str, IndexOf(str, m) + Len(m), Len(str)), m)
  ELSE <<>>

\* the characters handleInputMode inserts: codes 32 to 126
Printable == Chars \cup {"[", "2", "0", "1", "~"}

\* the terminal writes a bracketed paste; stdin will hand it to handleInput
\* in the given chunks
PasteArrives(chunks) ==
  /\ running
  /\ stdin = <<>>
  /\ stdin' = chunks
  /\ UNCHANGED <<fsVars, memVars, selVars, editVars, timerVars, termVars, claudePane, hook,
                 isPasting, pasteBuffer, screenVars, paneVars, procVars, activating, nextId, sent>>

\* handleInput for the next chunk of a paste.  A chunk with the start
\* marker opens the decoder; while it is open every chunk is paste text.
\* A chunk the decoder does not take goes to the key handlers, which compare
\* it to the keys as a whole: of the pieces of a paste only ESC alone
\* (Escape: cancel the input mode, or stop() and exit in normal mode), one
\* printable character alone in an input mode and 'a' alone in normal mode
\* are keys
HandleChunk ==
  /\ running
  /\ activating = None
  /\ stdin # <<>>
  /\ stdin' = Tail(stdin)
  /\ LET str == Head(stdin)
         afterStart == AfterFirst(str, pasteStart)
     IN IF Includes(str, pasteStart)
        THEN IF Includes(afterStart, pasteEnd)
             THEN /\ handlePaste(BeforeFirst(afterStart, pasteEnd))
                  /\ isPasting' = FALSE
                  /\ pasteBuffer' = <<>>
                  /\ UNCHANGED <<running, selectedSection>>
             ELSE /\ isPasting' = TRUE
                  /\ pasteBuffer' = afterStart
                  /\ UNCHANGED <<editVars, timerVars, fsTasks, tasks, nextId, running,
                                 selectedSection>>
        ELSE IF isPasting
        THEN IF Includes(str, pasteEnd)
             THEN /\ handlePaste(pasteBuffer \o BeforeFirst(str, pasteEnd))
                  /\ isPasting' = FALSE
                  /\ pasteBuffer' = <<>>
                  /\ UNCHANGED <<running, selectedSection>>
             ELSE /\ pasteBuffer' = pasteBuffer \o str
                  /\ UNCHANGED <<isPasting, editVars, timerVars, fsTasks, tasks, nextId, running,
                                 selectedSection>>
        ELSE /\ UNCHANGED <<isPasting, pasteBuffer, fsTasks, tasks, nextId, stableCount,
                            checking, lastObs, autoDone>>
             /\ IF str = <<ESC>> /\ inputMode # "none"
                THEN /\ exitInputMode
                     /\ leftBy' = "escape"
                     /\ UNCHANGED <<running, selectedSection>>
                ELSE IF str = <<ESC>>
                THEN /\ running' = FALSE
                     /\ pollInterval' = FALSE
                     /\ completionInterval' = FALSE
                     /\ UNCHANGED <<editVars, selectedSection>>
                ELSE IF str = <<"a">> /\ inputMode = "none"
                THEN /\ pausePolling
                     /\ selectedSection' = "queue"
                     /\ inputMode' = "add"
                     /\ leftBy' = "none"
                     /\ inputBuffer' = <<>>
                     /\ inputCursor' = 0
                     /\ UNCHANGED <<editingTaskId, running>>
                ELSE IF Len(str) = 1 /\ str[1] \in Printable /\ inputMode # "none"
                THEN /\ inputBuffer' = InsertAt(inputBuffer, inputCursor, str)
                     /\ inputCursor' = JsAdd(inputCursor, 1)
                     /\ UNCHANGED <<inputMode, editingTaskId, leftBy, pollInterval,
                                    completionInterval, running, selectedSection>>
                ELSE UNCHANGED <<editVars, pollInterval, completionInterval, running,
                                 selectedSection>>
  /\ IF stdin = <<<<ESC>>>> \o Tail(stdin) /\ ~isPasting /\ inputMode = "none"
     THEN rawMode' = FALSE /\ exited' = TRUE
     ELSE UNCHANGED procVars
  /\ UNCHANGED <<fsActive, fsDone, history, activeTask, doneTasks, selectedIndex,
                 doneSelectedIndex, width, focused, claudePane, hook, screenVars, paneVars,
                 activating, sent>>

\* handleInput for a key typed while the decoder is open: it is taken for
\* paste text
KeySwallowed(c) ==
  /\ running
  /\ activating = None
  /\ stdin = <<>>
  /\ isPasting
  /\ pasteBuffer' = pasteBuffer \o <<c>>
  /\ UNCHANGED <<fsVars, memVars, selVars, editVars, timerVars, termVars, claudePane, hook,
                 isPasting, stdin, screenVars, paneVars, procVars, activating, nextId, sent>>

\* the paste keeps the model inside its bounds: the tasks it creates stay
\* within MaxTasks, the buffer it fills within limit characters
PasteFits(content, limit) ==
  IF inputMode = "add" /\ Len(PasteLines(content)) > 1
  THEN nextId + Len(PasteLines(content)) - 1 <= MaxTasks
  ELSE Len(inputBuffer) + Len(content) <= limit

\* wrapText(text, maxWidth).length for a text of len characters: one line
\* when the text fits, else slices of maxWidth characters.  With maxWidth
\* below 1 the loop of wrapText removes nothing from a text that is not
\* empty and never ends: Diverges
Diverges == 0 - 1
wrapCount(len, maxWidth) ==
  IF len <= maxWidth THEN 1
  ELSE IF len = 0 THEN 0
  ELSE IF maxWidth < 1 THEN Diverges
  ELSE (len + maxWidth - 1) \div maxWidth

\* render: the width of a wrapped line, maxContentWidth - 2
WrapWidth == width - 8 - 2

\* render: the rows of the input line (an empty buffer takes one row)
InputRows ==
  IF wrapCount(Len(inputBuffer), WrapWidth) = 0 THEN 1
  ELSE wrapCount(Len(inputBuffer), WrapWidth)

\* renderTask: the rows of the Queue item at index (from 0) of the sorted
\* list: the input line when it is edited, its wrapped content when it is
\* selected in a focused sidebar and too long, else one row
TaskRows(index) ==
  LET task == getSortedTasks[index + 1]
  IN IF inputMode = "edit" /\ editingTaskId = task.id THEN InputRows
     ELSE IF /\ selectedSection = "queue" /\ index = selectedIndex /\ focused
             /\ Len(task.content) > WrapWidth
     THEN wrapCount(Len(task.content), WrapWidth)
     ELSE 1

\* render never returns: one of its wrapText calls does not end
RenderHangs ==
  \/ \E i \in 0..(Len(tasks) - 1) : TaskRows(i) = Diverges
  \/ inputMode = "add" /\ InputRows = Diverges

RECURSIVE SumTaskRows(_)
SumTaskRows(n) == IF n = 0 THEN 0 ELSE SumTaskRows(n - 1) + TaskRows(n - 1)

\* render: lines.length before the filler rows.  Header padding, header,
\* space; In Progress and the ActiveTask; space; the Review block; the
\* To-dos header and the Queue; the input line or the hint
ContentRows ==
  3 + 1 + (IF activeTask # None THEN 1 ELSE 0) + 1
    + (IF Len(doneTasks) > 0 THEN 1 + Min(Len(doneTasks), 5) + 1 ELSE 0)
    + 1 + SumTaskRows(Len(tasks))
    + (IF inputMode = "add" THEN InputRows ELSE IF focused THEN 1 ELSE 0)

\* render: footerHeight = statusline ? 4 : 3
footerHeight == IF statusline THEN 4 ELSE 3

\* render: the rows pushed after the filler rows: help, space, the
\* statusline when there is one, bottom padding
FooterRows == 1 + 1 + (IF statusline THEN 1 ELSE 0) + 1

\* filler rows that are not held at zero
FillerRowsUnclamped == height - ContentRows - footerHeight

\* render: the filler rows, one for each i from 0 below remainingHeight
FillerRows ==
  LET remainingHeight == height - ContentRows - footerHeight
  IN Cardinality({i \in 0..(remainingHeight - 1) : i < remainingHeight})

\* render: const maxContentWidth = this.width - 8
maxContentWidth == width - 8

\* render: where it leaves the terminal cursor in an input mode, as the
\* visual line below the input row and the column (column 0: the cursor
\* is hidden)
renderCursor ==
  IF inputMode # "none"
  THEN [line |-> inputCursor \div maxContentWidth, col |-> 7 + (inputCursor % maxContentWidth)]
  ELSE [line |-> 0, col |-> 0]

\* getCursorPosition(), as the visual line below the input row and the
\* column: the position redrawInputText and moveCursor use as well
getCursorPosition ==
  [line |-> inputCursor \div MaxWidth, col |-> 9 + (inputCursor % MaxWidth)]

\* the frame render() writes
Frame ==
  [ width |-> width, height |-> height, focused |-> focused,
    contentRows |-> ContentRows, fillerRows |-> FillerRows, footerRows |-> FooterRows,
    rows |-> ContentRows + FillerRows + FooterRows, cursor |-> renderCursor ]

\* render(), as called by the handlers of the terminal's reports: a frame,
\* or none when render does not return
render == painted' = IF RenderHangs' THEN painted ELSE Frame'

\* handleResize: the terminal reports w columns and h rows; the screen is
\* repainted outside the input modes only
Resize(w, h) ==
  /\ running
  /\ activating = None
  /\ width' = w
  /\ height' = h
  /\ UNCHANGED <<focused, running, claudePane, hook, pasteVars, paneVars, procVars, statusline, fsVars, memVars,
                 selVars, editVars, timerVars, activating, nextId, sent>>
  /\ IF inputMode = "none" THEN render ELSE UNCHANGED painted

\* handleInput: a focus-in (f = TRUE) or focus-out (f = FALSE) report
FocusReport(f) ==
  /\ running
  /\ activating = None
  /\ ~isPasting
  /\ stdin = <<>>
  /\ UNCHANGED <<width, running, claudePane, hook, pasteVars, paneVars, procVars, height, statusline, fsVars,
                 memVars, selVars, editVars, timerVars, activating, nextId, sent>>
  /\ IF focused # f
     THEN /\ focused' = f
          /\ render
     ELSE UNCHANGED <<focused, painted>>

\* the pollInterval callback when the statusline file has appeared or gone:
\* loadData() takes the new statusline with the lists
StatuslineTick ==
  /\ running
  /\ pollInterval
  /\ activating = None
  /\ inputMode = "none"
  /\ UNCHANGED fsVars
  /\ loadData
  /\ statusline' = ~statusline
  /\ UNCHANGED <<selVars, editVars, timerVars, termVars, claudePane, hook, pasteVars, paneVars, procVars, height,
                 painted, activating, nextId, sent>>

(***************************************************************************)
(* The two-tick revision of the sidebar: class RawSidebar of               *)
(* src/unnamed/part_005.  It keeps Queue and Active only, selects the      *)
(* ActiveTask with selectedIndex = -1, and completes the ActiveTask once   *)
(* isClaudeAtPrompt() has answered true on two ticks in a row.             *)
(***************************************************************************)
\* a counter that is satisfied by one idle tick
StableReachedAtOnce(count) == count >= 1

\* this.stableCount >= 2
StableReached(count) == count >= 2

\* this.state.tasks[this.state.selectedIndex], None for undefined
SelectedTwoTick ==
  IF selectedIndex >= 0 /\ selectedIndex < Len(tasks)
  THEN tasks[selectedIndex + 1]
  ELSE None

\* loadData(): the state is replaced when the files differ from it, and
\* then the completionInterval is set for an ActiveTask it lacks, or
\* cleared, with the counter, when no ActiveTask is left
loadDataTwoTick ==
  IF fsTasks # tasks \/ fsActive # activeTask
  THEN /\ tasks' = fsTasks
       /\ activeTask' = fsActive
       /\ IF fsActive # None /\ ~completionInterval
          THEN completionInterval' = TRUE /\ UNCHANGED stableCount
          ELSE IF fsActive = None /\ completionInterval
          THEN completionInterval' = FALSE /\ stableCount' = 0
          ELSE UNCHANGED <<completionInterval, stableCount>>
  ELSE UNCHANGED <<tasks, activeTask, completionInterval, stableCount>>

\* the pollInterval callback
PollTickTwoTick ==
  /\ running
  /\ pollInterval
  /\ inputMode = "none"
  /\ loadDataTwoTick
  /\ UNCHANGED <<fsVars, doneTasks, selVars, editVars, pollInterval, checking, lastObs,
                 autoDone, envVars, activating, nextId, sent>>

\* the completionInterval callback up to its await; in an input mode it
\* returns at once
CompletionTickTwoTick ==
  /\ running
  /\ completionInterval
  /\ inputMode = "none"
  /\ ~checking
  /\ checking' = TRUE
  /\ UNCHANGED <<fsVars, memVars, selVars, editVars, pollInterval, completionInterval,
                 stableCount, lastObs, autoDone, envVars, activating, nextId, sent>>

\* the completionInterval callback from the answer of isClaudeAtPrompt() on
CompletionResumeTwoTick(atPrompt) ==
  /\ running
  /\ checking
  /\ checking' = FALSE
  /\ lastObs' = IF atPrompt THEN "idle" ELSE "busy"
  /\ IF atPrompt
     THEN IF StableReached(stableCount + 1)
          THEN /\ completeActiveTask
               /\ activeTask' = None
               /\ stableCount' = 0
               /\ autoDone' = IF fsActive # None THEN autoDone \cup {fsActive.id} ELSE autoDone
          ELSE /\ stableCount' = stableCount + 1
               /\ UNCHANGED <<fsActive, history, activeTask, autoDone>>
     ELSE /\ stableCount' = 0
          /\ UNCHANGED <<fsActive, history, activeTask, autoDone>>
  /\ UNCHANGED <<fsTasks, fsDone, tasks, doneTasks, selVars, editVars, pollInterval,
                 completionInterval, envVars, activating, nextId, sent>>

\* handleNormalMode: Up arrow or k
KeyUpTwoTick ==
  /\ InNormalMode
  /\ IF selectedIndex > 0
     THEN selectedIndex' = selectedIndex - 1
     ELSE /\ selectedIndex = 0
          /\ activeTask # None
          /\ selectedIndex' = -1
  /\ UNCHANGED <<selectedSection, doneSelectedIndex, fsVars, memVars, editVars, timerVars,
                 envVars, activating, nextId, sent>>

\* handleNormalMode: Down arrow or j
KeyDownTwoTick ==
  /\ InNormalMode
  /\ IF selectedIndex = -1
     THEN selectedIndex' = 0
     ELSE /\ selectedIndex < Len(tasks) - 1
          /\ selectedIndex' = selectedIndex + 1
  /\ UNCHANGED <<selectedSection, doneSelectedIndex, fsVars, memVars, editVars, timerVars,
                 envVars, activating, nextId, sent>>

\* handleNormalMode: Enter.  An ActiveTask there is goes to history first;
\* then activateTask takes the selected task out of tasks.json
KeyEnterTwoTick ==
  /\ InNormalMode
  /\ SelectedTwoTick # None
  /\ LET cleared == activeTask # None
         taskIndex == FindIndex(fsTasks, SelectedTwoTick.id)
     IN /\ history' = IF cleared /\ fsActive # None
                      THEN appendToHistory(history, fsActive.content)
                      ELSE history
        /\ IF taskIndex = 0
           THEN /\ fsActive' = IF cleared THEN None ELSE fsActive
                /\ activeTask' = IF cleared THEN None ELSE activeTask
                /\ UNCHANGED <<fsTasks, tasks, sent>>
           ELSE /\ fsTasks' = Splice(fsTasks, taskIndex)
                /\ fsActive' = AsActive(fsTasks[taskIndex])
                /\ activeTask' = fsActive'
                /\ tasks' = fsTasks'
                /\ sent' = Append(sent, SelectedTwoTick.content)
  /\ UNCHANGED <<fsDone, doneTasks, selVars, editVars, timerVars, envVars, activating,
                 nextId>>

\* handleNormalMode: 'a'
KeyATwoTick ==
  /\ InNormalMode
  /\ pausePolling
  /\ inputMode' = "add"
  /\ leftBy' = "none"
  /\ inputBuffer' = <<>>
  /\ inputCursor' = 0
  /\ UNCHANGED <<editingTaskId, selVars, fsVars, memVars, stableCount, checking, lastObs,
                 autoDone, envVars, activating, nextId, sent>>

\* handleNormalMode: 'e'
KeyETwoTick ==
  /\ InNormalMode
  /\ SelectedTwoTick # None
  /\ pausePolling
  /\ inputMode' = "edit"
  /\ leftBy' = "none"
  /\ editingTaskId' = SelectedTwoTick.id
  /\ inputBuffer' = SelectedTwoTick.content
  /\ inputCursor' = Len(SelectedTwoTick.content)
  /\ UNCHANGED <<selVars, fsVars, memVars, stableCount, checking, lastObs, autoDone,
                 envVars, activating, nextId, sent>>

\* handleNormalMode: 'd' on the ActiveTask
KeyDActiveTwoTick ==
  /\ InNormalMode
  /\ selectedIndex = -1
  /\ activeTask # None
  /\ completeActiveTask
  /\ activeTask' = None
  /\ selectedIndex' = 0
  /\ UNCHANGED <<fsTasks, fsDone, tasks, doneTasks, selectedSection, doneSelectedIndex,
                 editVars, timerVars, envVars, activating, nextId, sent>>

\* handleNormalMode: 'd' on a task of the Queue
KeyDQueueTwoTick ==
  /\ InNormalMode
  /\ ~(selectedIndex = -1 /\ activeTask # None)
  /\ SelectedTwoTick # None
  /\ fsTasks' = removeTask(fsTasks, SelectedTwoTick.id)
  /\ tasks' = fsTasks'
  /\ selectedIndex' = Max(0, selectedIndex - 1)
  /\ UNCHANGED <<fsActive, fsDone, history, activeTask, doneTasks, selectedSection,
                 doneSelectedIndex, editVars, timerVars, envVars, activating, nextId, sent>>

(***************************************************************************)
(* Specifications.                                                         *)
(***************************************************************************)
\* the state once the constructor and start() have run on the project
\* files (queue, active, done): loadData, then both intervals are set
Started(queue, active, done) ==
  /\ fsTasks = queue
  /\ fsActive = active
  /\ fsDone = done
  /\ history = <<>>
  /\ tasks = queue
  /\ activeTask = active
  /\ doneTasks = done
  /\ selectedSection = "queue"
  /\ selectedIndex = 0
  /\ doneSelectedIndex = 0
  /\ inputMode = "none"
  /\ editingTaskId = 0
  /\ leftBy = "none"
  /\ inputBuffer = <<>>
  /\ inputCursor = 0
  /\ width = DefaultWidth
  /\ focused = TRUE
  /\ running = TRUE
  /\ claudePane = TRUE
  /\ hook = HookIdle
  /\ isPasting = FALSE
  /\ pasteBuffer = <<>>
  /\ stdin = <<>>
  /\ height = DefaultHeight
  /\ statusline = FALSE
  /\ painted = NoFrame
  /\ paneCalls = <<>>
  /\ paneLog = <<>>
  /\ rawMode = TRUE
  /\ exited = FALSE
  /\ pollInterval = TRUE
  /\ completionInterval = TRUE
  /\ stableCount = 0
  /\ checking = FALSE
  /\ activating = None
  /\ nextId = Len(queue) + Len(done) + 1
  /\ sent = <<>>
  /\ lastObs = "none"
  /\ autoDone = {}

\* the task contents the lifecycle specification types
LifeChars == {"a"}

\* the project files start() may find, left by an earlier session: nothing,
\* one queued task, or one queued task and one task the hook moved to
\* done.json
InitFiles ==
  { [queue |-> <<>>, done |-> <<>>],
    [queue |-> <<NewTask(1, <<"a">>)>>, done |-> <<>>],
    [queue |-> <<NewTask(1, <<"a">>)>>, done |-> <<DoneTask(NewTask(2, <<"a">>), 1)>>] }

\* the pastes the lifecycle specification receives
LifePastes == {<<"a", "\n", "a">>}

\* Task lifecycle of the latest revision
Init == \E files \in InitFiles : Started(files.queue, None, files.done)

\* the sidebar's steps on tasks.json, active.json and history.log
NextCore ==
  \/ KeyUp
  \/ KeyDown
  \/ \E n \in 1..MaxTasks : KeyDigit(n)
  \/ KeyEnter
  \/ KeyEnterActivate
  \/ KeyA
  \/ KeyE
  \/ KeyDQueue
  \/ PollTick
  \/ CompletionTick
  \/ \E capture \in Captures : CompletionResume(capture)
  \/ PaneChange
  \/ (inputMode = "add" /\ Trim(inputBuffer) # <<>> => nextId <= MaxTasks) /\ InputEnter
  \/ InputEscape
  \/ InputBackspace
  \/ \E c \in LifeChars : Len(inputBuffer) < MaxContent /\ InputChar(c)
  \/ \E content \in LifePastes : PasteFits(content, MaxContent) /\ Paste(content)

\* the sidebar's own steps, those on done.json included
NextSidebar == NextCore \/ KeyDDone \/ KeyR

\* a run of the todo-sync hook, in one step
NextHook ==
  \E matched \in SUBSET {t.content : t \in Range(fsTasks)} : SyncTodos(matched)

Next == NextSidebar \/ NextHook

\* the sidebar without its Review keys
SpecCore == Init /\ [][NextCore]_vars

\* the sidebar alone
SpecSidebar == Init /\ [][NextSidebar]_vars

\* the sidebar and the hook
Spec == Init /\ [][Next]_vars

\* the operations on the project files: refresh, add, edit, delete,
\* dispatch and completion, and the documents ceasing to parse
NextCorrupt ==
  \/ KeyDown
  \/ KeyEnter
  \/ KeyEnterActivate
  \/ KeyA
  \/ KeyE
  \/ KeyDQueue
  \/ PollTick
  \/ CompletionTick
  \/ \E capture \in Captures : CompletionResume(capture)
  \/ (inputMode = "add" /\ Trim(inputBuffer) # <<>> => nextId <= MaxTasks) /\ InputEnter
  \/ InputEscape
  \/ \E c \in LifeChars : Len(inputBuffer) < MaxContent /\ InputChar(c)
  \/ \E doc \in {"tasks.json", "active.json"} : Damage(doc)

\* the sidebar on project files that may stop parsing at any moment
SpecCorrupt == Init /\ [][NextCorrupt]_vars

\* the sidebar until it ends, by Escape or by a signal
SpecQuit == Init /\ [][NextCore \/ KeyEscape \/ Signal]_vars

\* two queued tasks of different contents
InitPane == Started(<<NewTask(1, <<"a">>), NewTask(2, <<"b">>)>>, None, <<>>)

\* dispatches, and the calls to the pane backend they leave running
NextPane ==
  \/ KeyUp
  \/ KeyDown
  \/ KeyEnter
  \/ KeyEnterActivate
  \/ PollTick
  \/ PaneChange
  \/ \E k \in 1..(2 * MaxTasks) : PaneListed(k)
  \/ \E k \in 1..(2 * MaxTasks) : PaneCommand(k)

\* the sidebar and its unawaited pane-backend calls
SpecPane == InitPane /\ [][NextPane]_vars

\* the hook's steps, one file access each
NextHookSteps ==
  \/ \E matched \in (SUBSET HookContents) \ {{}} : HookReadTasks(matched)
  \/ HookReadDone
  \/ HookWriteTasks
  \/ HookWriteDone

\* the project files the sidebar and the hook start from: two queued tasks
\* of different contents, or the files of Init
InitHook ==
  \/ Started(<<NewTask(1, <<"a">>), NewTask(2, <<"b">>)>>, None, <<>>)
  \/ Init

\* the sidebar's steps on a Queue that is not edited: selection, dispatch,
\* deletion, refresh and the completion check
NextDispatch ==
  \/ KeyUp
  \/ KeyDown
  \/ KeyEnter
  \/ KeyEnterActivate
  \/ KeyDQueue
  \/ PollTick
  \/ CompletionTick
  \/ \E capture \in Captures : CompletionResume(capture)

\* dispatch and completion in the sidebar, and the hook's file accesses
\* among the sidebar's
SpecHook == InitHook /\ [][NextDispatch \/ NextHookSteps]_vars

\* a done.json of n entries, the most recent first
DoneFile(n) == [i \in 1..n |-> DoneTask(NewTask(n + 1 - i, <<"a">>), n + 1 - i)]

\* two queued tasks of different contents, and a done.json that is empty,
\* one short of full, or full
InitDone ==
  \E n \in {0, DoneLimit - 1, DoneLimit} :
    /\ Started(<<NewTask(n + 1, <<"a">>), NewTask(n + 2, <<"b">>)>>, None, DoneFile(n))

\* runs of the hook among the sidebar's steps on the Queue
NextDone ==
  \/ NextHookSteps
  \/ KeyUp
  \/ KeyDown
  \/ KeyDQueue
  \/ PollTick

\* the hook filling done.json
SpecDone == InitDone /\ [][NextDone]_vars

\* the pastes the editing specifications receive: one line, one line and
\* a newline, no line, two lines, three lines, two lines among blanks
EditPastes ==
  { <<"a">>, <<"a", "\n">>, <<"\n">>, <<"a", "\n", "a">>,
    <<"a", "\n", "a", "\n", "a">>, <<" ", "a", "\n", "\n", "a", " ">> }

\* Enter keeps the model inside its bounds
EnterFits ==
  Trim(inputBuffer) # <<>> =>
    /\ Len(Trim(inputBuffer)) <= MaxContent
    /\ inputMode = "add" => nextId <= MaxTasks

\* the cursor is inside the model's range
CursorInCap == IsNaN(inputCursor) \/ inputCursor \in (0 - CursorCap)..CursorCap

\* the input mode's keys, those that move by visual lines left out, and a
\* resize while the input line is open (SpecScreen has the resize that
\* repaints)
NextEdit ==
  \/ KeyA
  \/ KeyE
  \/ EnterFits /\ InputEnter
  \/ InputEscape
  \/ InputBackspace
  \/ InputLeft
  \/ InputRight
  \/ InputWordLeft
  \/ InputWordRight
  \/ InputCtrlU
  \/ InputCtrlK
  \/ InputCtrlW
  \/ \E c \in Chars : Len(inputBuffer) < MaxBuf /\ InputChar(c) /\ CursorInCap'
  \/ \E content \in EditPastes : PasteFits(content, MaxBuf) /\ Paste(content) /\ CursorInCap'
  \/ \E w \in Widths : inputMode # "none" /\ Resize(w, height)

\* typing and submitting: tasks are added and edited with contents as long
\* as the buffer allows
NextSubmit ==
  \/ KeyA
  \/ KeyE
  \/ KeyDown
  \/ (inputMode = "add" /\ Trim(inputBuffer) # <<>> => nextId <= MaxTasks) /\ InputEnter
  \/ InputEscape
  \/ \E c \in Chars : Len(inputBuffer) < MaxBuf /\ InputChar(c)

\* adding and editing tasks
SpecSubmit == Init /\ [][NextSubmit]_vars

\* the keys that move by visual lines
NextLines ==
  \/ InputUp /\ CursorInCap'
  \/ InputDown /\ CursorInCap'
  \/ InputCtrlA /\ CursorInCap'
  \/ InputCtrlE /\ CursorInCap'

\* Editing without the visual-line keys
SpecEdit == Init /\ [][NextEdit]_vars

\* Editing with every key
SpecVisual == Init /\ [][NextEdit \/ NextLines]_vars

\* the project files of the screen specification: a Queue whose first task
\* is longer than the narrow viewports are wide, with and without an
\* ActiveTask, or no file at all
InitScreen ==
  \/ \E active \in {None, AsActive(NewTask(3, <<"a">>))} :
       Started(<<NewTask(1, <<"a", "a", "a">>), NewTask(2, <<"a">>)>>, active, <<>>)
  \/ Started(<<>>, None, <<>>)

\* selection, the input modes, and the terminal's reports
NextScreen ==
  \/ KeyDown
  \/ KeyA
  \/ InputEscape
  \/ \E c \in LifeChars : Len(inputBuffer) < MaxBuf /\ InputChar(c)
  \/ \E w \in Widths, h \in Heights : Resize(w, h)
  \/ \E f \in BOOLEAN : FocusReport(f)
  \/ StatuslineTick

\* the sidebar under resizes and focus reports
SpecScreen == InitScreen /\ [][NextScreen]_vars

\* the priorities tasks.json may carry; the sidebar only reads them
Priorities == {1, 2}

\* the queued tasks start() may find: created in the order of their ids,
\* with or without a priority
SortPool ==
  { [NewTask(id, <<"a">>) EXCEPT !.priority = p] :
      id \in 1..MaxTasks, p \in {NoPriority} \cup Priorities }

\* the contents of tasks.json start() may find: tasks 1..n in any order
SortQueues ==
  UNION { { q \in [1..n -> SortPool] : {q[i].id : i \in 1..n} = 1..n } :
          n \in 0..MaxTasks }

InitSort == \E queue \in SortQueues : Started(queue, None, <<>>)

\* the steps that read the sorted Queue: selection, dispatch, deletion, and
\* the refresh
NextSort ==
  \/ KeyUp
  \/ KeyDown
  \/ \E n \in 1..MaxTasks : KeyDigit(n)
  \/ KeyEnter
  \/ KeyEnterActivate
  \/ KeyDQueue
  \/ PollTick

\* the sidebar on a Queue whose tasks carry priorities
SpecSort == InitSort /\ [][NextSort]_vars

\* a bracketed paste as the terminal writes it
Bracketed(content) == pasteStart \o content \o pasteEnd

\* the texts pasted chunk by chunk
ChunkedPastes == {<<"a">>, <<"a", "\n", "a">>}

\* a paste in chunks that keep each marker whole: one chunk, the markers
\* and the text apart, or two chunks cut inside the text or at its ends
WholeMarkerChunkings(content) ==
  LET w == Bracketed(content)
  IN {<<w>>, <<pasteStart, content, pasteEnd>>}
       \cup {<<SubSeq(w, 1, k), SubSeq(w, k + 1, Len(w))>> :
               k \in Len(pasteStart)..(Len(w) - Len(pasteEnd))}

\* a paste in two chunks, cut anywhere: inside a marker too
Chunkings(content) ==
  LET w == Bracketed(content)
  IN WholeMarkerChunkings(content)
       \cup {<<SubSeq(w, 1, k), SubSeq(w, k + 1, Len(w))>> : k \in 1..(Len(w) - 1)}

\* the chunk at the head of stdin keeps the model inside its bounds
ChunkFits ==
  stdin # <<>> /\
  LET str == Head(stdin)
      text == IF Includes(str, pasteStart) THEN BeforeFirst(AfterFirst(str, pasteStart), pasteEnd)
              ELSE IF isPasting THEN pasteBuffer \o BeforeFirst(str, pasteEnd)
              ELSE <<>>
  IN /\ inputMode = "add" /\ Len(PasteLines(text)) > 1 =>
          nextId + Len(PasteLines(text)) - 1 <= MaxTasks
     /\ inputMode = "edit" \/ (inputMode = "add" /\ Len(PasteLines(text)) = 1) =>
          Len(inputBuffer) + Len(text) <= MaxBuf
     /\ Len(pasteBuffer) + Len(str) <= MaxPaste

\* the sidebar's keys and pastes that stdin delivers in chunks
NextPaste ==
  \/ KeyA
  \/ KeyE
  \/ KeyDown
  \/ KeyDQueue
  \/ EnterFits /\ InputEnter
  \/ InputEscape
  \/ \E c \in LifeChars : Len(inputBuffer) < MaxBuf /\ InputChar(c)
  \/ \E content \in ChunkedPastes : \E chunks \in Chunkings(content) : PasteArrives(chunks)
  \/ ChunkFits /\ HandleChunk
  \/ \E c \in LifeChars : Len(pasteBuffer) < MaxPaste /\ KeySwallowed(c)

\* typing, and pastes that arrive in chunks
SpecPaste == Init /\ [][NextPaste]_vars

\* the state once the two-tick revision's start() has run on the project
\* files: its loadData sets the completionInterval for an ActiveTask
StartedTwoTick(queue, active) ==
  /\ fsTasks = queue
  /\ fsActive = active
  /\ fsDone = <<>>
  /\ history = <<>>
  /\ tasks = queue
  /\ activeTask = active
  /\ doneTasks = <<>>
  /\ selectedSection = "queue"
  /\ selectedIndex = 0
  /\ doneSelectedIndex = 0
  /\ inputMode = "none"
  /\ editingTaskId = 0
  /\ leftBy = "none"
  /\ inputBuffer = <<>>
  /\ inputCursor = 0
  /\ width = DefaultWidth
  /\ focused = TRUE
  /\ running = TRUE
  /\ claudePane = TRUE
  /\ hook = HookIdle
  /\ isPasting = FALSE
  /\ pasteBuffer = <<>>
  /\ stdin = <<>>
  /\ height = DefaultHeight
  /\ statusline = FALSE
  /\ painted = NoFrame
  /\ paneCalls = <<>>
  /\ paneLog = <<>>
  /\ rawMode = TRUE
  /\ exited = FALSE
  /\ pollInterval = TRUE
  /\ completionInterval = (active # None)
  /\ stableCount = 0
  /\ checking = FALSE
  /\ activating = None
  /\ nextId = Len(queue) + (IF active # None THEN 1 ELSE 0) + 1
  /\ sent = <<>>
  /\ lastObs = "none"
  /\ autoDone = {}

\* the project files the two-tick revision may find: a queued task, or a
\* queued task and the task an earlier session left active
InitFilesTwoTick ==
  { [queue |-> <<NewTask(1, <<"a">>)>>, active |-> None],
    [queue |-> <<NewTask(2, <<"a">>)>>, active |-> [id |-> 1, content |-> <<"a">>]] }

InitTwoTick == \E files \in InitFilesTwoTick : StartedTwoTick(files.queue, files.active)

NextTwoTick ==
  \/ PollTickTwoTick
  \/ CompletionTickTwoTick
  \/ \E atPrompt \in BOOLEAN : CompletionResumeTwoTick(atPrompt)
  \/ KeyUpTwoTick
  \/ KeyDownTwoTick
  \/ KeyEnterTwoTick
  \/ KeyATwoTick
  \/ KeyETwoTick
  \/ KeyDActiveTwoTick
  \/ KeyDQueueTwoTick
  \/ EnterFits /\ InputEnter
  \/ InputEscape
  \/ InputBackspace
  \/ \E c \in LifeChars : Len(inputBuffer) < MaxContent /\ InputChar(c)

\* Task lifecycle of the two-tick revision
SpecTwoTick == InitTwoTick /\ [][NextTwoTick]_vars

(***************************************************************************)
(* Properties.                                                             *)
(***************************************************************************)
Ids(file) == {file[i].id : i \in 1..Len(file)}

NoDuplicateIds(file) == \A i, j \in 1..Len(file) : file[i].id = file[j].id => i = j

\* the three collections hold disjoint sets of ids, each id once
Disjoint(queue, active, done) ==
  /\ NoDuplicateIds(queue)
  /\ NoDuplicateIds(done)
  /\ Ids(queue) \cap Ids(done) = {}
  /\ active # None => active.id \notin Ids(queue) \cup Ids(done)

\* C1: under every sequence of sidebar operations (add, edit, delete,
\* dispatch, complete or clear the active task, confirm-remove and return
\* of a Done item) task ids are unique and no id is in two of Queue,
\* Active and Done at once, in the project files and in the sidebar's state
C1_UniqueIds ==
  /\ Disjoint(fsTasks, fsActive, fsDone)
  /\ Disjoint(tasks, activeTask, doneTasks)

\* C1's case: all three collections are populated, after an add and a
\* dispatch
C1_Witness ==
  /\ Len(fsTasks) > 0
  /\ fsActive # None
  /\ Len(fsDone) > 0
  /\ Len(sent) > 0
  /\ nextId > 3

\* C2: Enter on a Queue item while an ActiveTask exists either rejects the
\* dispatch or finalizes the existing ActiveTask first, so activateTask
\* never writes active.json over a task that is still there
C2_NoOverwrite == activating # None => fsActive = None

\* C3: dispatch is atomic for a reader of the project files: at every
\* instant of activateTask the task is in exactly one of tasks.json and
\* active.json, never in both and never in neither
C3_AtomicDispatch ==
  activating # None =>
    (activating.id \in Ids(fsTasks)) # (fsActive.id = activating.id)

\* C5: every step that leaves EDITING (Enter, Escape, a multi-line paste)
\* re-arms both timers: the poll timer is armed, and the completion timer
\* is armed when an ActiveTask exists
C5_TimersRearmed ==
  [][inputMode # "none" /\ inputMode' = "none" =>
       pollInterval' /\ (activeTask' # None => completionInterval')]_vars

\* C6: entering EDITING cancels both timers: in every reachable state with
\* inputMode add or edit neither the poll timer nor the completion timer
\* is armed
C6_TimersPaused ==
  inputMode \in {"add", "edit"} => ~pollInterval /\ ~completionInterval

\* C6's case: 'e' opened the editor while a task was active and waiting
\* for its completion check
C6_Witness ==
  /\ inputMode = "edit"
  /\ activeTask # None
  /\ ~pollInterval
  /\ ~completionInterval

\* C7: 0 <= inputCursor <= length(inputBuffer) after every insert,
\* Backspace, Ctrl-U, Ctrl-K, Ctrl-W, Left, Right, Option-Left,
\* Option-Right and paste-insert
C7_CursorInBuffer == inputCursor \in 0..Len(inputBuffer)

\* C7's case: the keys have built a buffer and left the cursor inside it
C7_Witness ==
  /\ inputMode = "add"
  /\ Len(inputBuffer) >= 3
  /\ inputCursor \in 1..(Len(inputBuffer) - 1)

\* C8: the cursor also stays within 0..length(inputBuffer), and a number,
\* after Up, Down, Ctrl-A and Ctrl-E at every viewport width, the widths of
\* 10 columns and fewer included
C8_CursorInBufferAtWidth ==
  \A w \in Widths :
    width = w => JsLe(0, inputCursor) /\ JsLe(inputCursor, Len(inputBuffer))

\* the positions after which a line of the pasted text ends or starts
LineBreaks(content) ==
  {0, Len(content) + 1} \cup {i \in 1..Len(content) : content[i] = "\n"}

\* the breaks that start a line holding something other than spaces
LineStarts(content) ==
  {b \in LineBreaks(content) : b <= Len(content) /\
     \E k \in (b + 1)..Len(content) :
        /\ content[k] # " "
        /\ \A j \in (b + 1)..k : content[j] # "\n"}

\* the i-th non-empty line of the pasted text, without the spaces around it
PastedLine(content, i) ==
  LET b == CHOOSE x \in LineStarts(content) :
             Cardinality({y \in LineStarts(content) : y < x}) = i - 1
      e == CHOOSE x \in LineBreaks(content) :
             x > b /\ \A y \in LineBreaks(content) : y > b => x <= y
      first == CHOOSE k \in (b + 1)..(e - 1) :
                 content[k] # " " /\ \A j \in (b + 1)..(k - 1) : content[j] = " "
      last == CHOOSE k \in (b + 1)..(e - 1) :
                 content[k] # " " /\ \A j \in (k + 1)..(e - 1) : content[j] = " "
  IN SubSeq(content, first, last)

\* C9: a paste in add mode with n >= 2 non-empty trimmed lines appends
\* exactly n tasks to the Queue, one per line and in paste order, and
\* returns to normal mode with an empty buffer; a paste with one non-empty
\* line creates no task, inserts the line at the cursor, advances the
\* cursor by its length and stays in the input mode
C9_PasteCreatesTasks ==
  [][\A content \in EditPastes :
       inputMode = "add" /\ Paste(content) =>
         LET n == Cardinality(LineStarts(content))
         IN /\ n >= 2 =>
                 /\ Len(fsTasks') = Len(fsTasks) + n
                 /\ SubSeq(fsTasks', 1, Len(fsTasks)) = fsTasks
                 /\ \A i \in 1..n :
                      fsTasks'[Len(fsTasks) + i].content = PastedLine(content, i)
                 /\ tasks' = fsTasks'
                 /\ inputMode' = "none"
                 /\ inputBuffer' = <<>>
            /\ n = 1 =>
                 /\ fsTasks' = fsTasks
                 /\ inputMode' = "add"
                 /\ inputBuffer' = SubSeq(inputBuffer, 1, inputCursor)
                                     \o PastedLine(content, 1)
                                     \o SubSeq(inputBuffer, inputCursor + 1, Len(inputBuffer))
                 /\ inputCursor' = inputCursor + Len(PastedLine(content, 1))]_vars

\* C9's case: a multi-line paste has closed the add prompt and its lines
\* are tasks of the Queue
C9_Witness ==
  /\ leftBy = "paste"
  /\ inputMode = "none"
  /\ inputBuffer = <<>>
  /\ Len(fsTasks) >= 3

\* C10: while the input mode is open no step writes tasks.json,
\* active.json, done.json or history.log, and Escape returns to normal
\* mode with an empty buffer and the cursor at 0, again without a write:
\* the files are what they were when the input mode was entered
C10_EscapeDiscards ==
  [][/\ inputMode # "none" /\ inputMode' # "none" => UNCHANGED fsVars
     /\ InputEscape =>
          /\ inputMode' = "none"
          /\ inputBuffer' = <<>>
          /\ inputCursor' = 0
          /\ UNCHANGED fsVars]_vars

\* C10's case: Escape has closed the input mode over a project with tasks
C10_Witness ==
  /\ leftBy = "escape"
  /\ inputMode = "none"
  /\ inputBuffer = <<>>
  /\ inputCursor = 0
  /\ Len(fsTasks) > 0

\* C4: in the two-tick revision a completion check completes the
\* ActiveTask only when it observes the backend idle and the check before
\* it observed it idle too; a check that observes it not idle resets the
\* idle counter and completes nothing
C4_TwoIdleTicks ==
  [][\A atPrompt \in BOOLEAN :
       CompletionResumeTwoTick(atPrompt) =>
         /\ fsActive # None /\ fsActive' = None => atPrompt /\ lastObs = "idle"
         /\ ~atPrompt => stableCount' = 0 /\ UNCHANGED <<fsActive, history, activeTask>>]_vars

\* C4's case: two idle checks in a row have completed a task
C4_Witness ==
  /\ autoDone # {}
  /\ lastObs = "idle"
  /\ fsActive = None
  /\ Len(history) > 0

\* C11: Enter in add or edit mode over an empty or whitespace-only buffer
\* creates no task, overwrites no task's content, leaves the project files
\* and the lists in memory as they were, and returns to normal mode
C11_BlankEnterKeepsQueue ==
  [][InputEnter /\ IsBlank(inputBuffer) =>
       /\ UNCHANGED <<fsVars, memVars, nextId>>
       /\ inputMode' = "none"
       /\ editingTaskId' = 0
       /\ inputBuffer' = <<>>]_vars

\* C11's case: Enter has closed the input mode over a blank buffer while the
\* Queue held a task
C11_Witness ==
  /\ leftBy = "blank"
  /\ inputMode = "none"
  /\ Len(fsTasks) > 0

\* C12: while no assistant pane can be found, Enter on a Queue item leaves
\* the task in the Queue, sets no ActiveTask and changes no project file
C12_NoPaneNoDispatch ==
  [][~claudePane /\ (KeyEnter \/ KeyEnterActivate) => UNCHANGED <<fsVars, memVars>>]_vars

\* C13: whatever the interleaving of the sidebar's steps with the hook's
\* reads and writes of tasks.json and done.json, the task that has been
\* dispatched and is the ActiveTask is not in the persisted Queue
C13_DispatchedNotRequeued ==
  fsActive # None => \A i \in 1..Len(fsTasks) : fsTasks[i].id # fsActive.id

\* C14: once stdin has handed over every chunk of a bracketed paste, the
\* decoder is not in paste mode, wherever the terminal cut the paste
C14_DecoderNotStuck ==
  running /\ stdin = <<>> => ~isPasting

\* C15: a chunk of a bracketed paste that stdin hands over in normal mode
\* changes no task, no selection, no edit state and no project file and is
\* not run as a key; once the last chunk is handed over the decoder is out
\* of paste mode
C15_NormalPasteDiscarded ==
  [][HandleChunk /\ inputMode = "none" =>
       /\ UNCHANGED <<fsVars, memVars, selVars, editVars, timerVars, running>>
       /\ stdin' = <<>> => ~isPasting']_vars

\* C16: a focus-in or focus-out report sets the focused flag in every mode
\* and repaints the screen in normal mode only: in an input mode the last
\* frame stays
C16_FocusRepaintSkippedInInput ==
  [][\A f \in BOOLEAN :
       FocusReport(f) =>
         /\ focused' = f
         /\ inputMode # "none" => UNCHANGED painted]_vars

C17_SortedForDisplay ==
  /\ [](LET s == getSortedTasks
        IN /\ Len(s) = Len(tasks)
           /\ \A t \in Range(tasks) :
                Cardinality({i \in 1..Len(s) : s[i] = t})
                  = Cardinality({i \in 1..Len(tasks) : tasks[i] = t})
           /\ \A i, j \in 1..Len(s) : i < j =>
                /\ s[i].priority = NoPriority => s[j].priority = NoPriority
                /\ s[i].priority # NoPriority /\ s[j].priority # NoPriority
                     => s[i].priority <= s[j].priority
                /\ s[i].priority = NoPriority /\ s[j].priority = NoPriority
                     => s[i].createdAt <= s[j].createdAt
           /\ SortTasks(s) = s)
  /\ [][\A n \in 1..MaxTasks : KeyDigit(n) => tasks' = tasks]_vars

\* a digit key has selected a row of a Queue that is stored out of display
\* order, with a prioritized task and two tasks without priority, the newer
\* one stored first
C17_Witness ==
  /\ selectedIndex > 0
  /\ getSortedTasks # tasks
  /\ \E i, j, k \in 1..Len(tasks) :
       /\ tasks[i].priority # NoPriority
       /\ tasks[j].priority = NoPriority
       /\ tasks[k].priority = NoPriority
       /\ j < k
       /\ tasks[j].createdAt > tasks[k].createdAt

\* C18: the display order is the same for every order in which the same
\* tasks are persisted, tasks that share a priority included.
C18_OrderIgnoresPersistedOrder ==
  tasks = fsTasks =>
    \A f \in Permutations(1..Len(fsTasks)) :
      SortTasks([i \in 1..Len(fsTasks) |-> fsTasks[f[i]]]) = getSortedTasks

\* C20: a completion check whose capture of the assistant's pane fails
\* (null, or an exception out of the call) completes nothing and leaves the
\* files, the sidebar's tasks and the completion interval as they were; no
\* check is left pending, so where the interval is set and a task is active
\* the next tick checks again.
C20_FailedCaptureChangesNothing ==
  [][\A capture \in {"null", "throws"} :
       CompletionResume(capture) =>
         /\ UNCHANGED <<fsVars, memVars, completionInterval>>
         /\ ~checking'
         /\ completionInterval /\ activeTask # None =>
              /\ running'
              /\ completionInterval'
              /\ activating' = None
              /\ activeTask' # None]_vars

\* the last completion check failed to capture the pane while a task was
\* active, and the task is still active in the file and in the sidebar
C20_Witness ==
  /\ lastObs = "failed"
  /\ ~checking
  /\ completionInterval
  /\ fsActive # None
  /\ activeTask = fsActive
  /\ history = <<>>


\* C21: a tasks.json or active.json whose text does not parse is read as the
\* empty Queue or as no ActiveTask: no unparsed content reaches the state
\* of the sidebar or a dispatch, no operation writes it back among tasks,
\* and the refresh tick on such a document loads the default.
C21_UnparsableReadsAsDefault ==
  /\ [](/\ \A i \in 1..Len(tasks) : tasks[i].id > 0
        /\ activeTask.id >= 0
        /\ activating.id >= 0
        /\ fsTasks # UnparsableList => \A i \in 1..Len(fsTasks) : fsTasks[i].id > 0
        /\ \A i \in 1..Len(history) : history[i] # <<>>)
  /\ [][PollTick =>
         /\ fsTasks = UnparsableList => tasks' = <<>>
         /\ fsActive = UnparsableActive => activeTask' = None]_vars

\* the refresh tick has read a tasks.json that does not parse and the
\* sidebar shows an empty Queue, then a task was added over the document
C21_Witness ==
  /\ lastObs = "unparsable"
  /\ running
  /\ Len(fsTasks) = 1
  /\ fsTasks # UnparsableList
  /\ tasks = fsTasks
  /\ fsActive = UnparsableActive
  /\ activeTask = None


\* C22: the pane backend applies the effects in issue order: the texts of
\* successive dispatches arrive in dispatch order, and the focus change of
\* a dispatch is applied after its text was sent.
C22_PaneEffectsInIssueOrder ==
  \A i, j \in 1..Len(paneLog) :
    /\ i < j /\ paneLog[i].kind = "send" /\ paneLog[j].kind = "send"
         => paneLog[i].dispatch < paneLog[j].dispatch
    /\ i < j /\ paneLog[i].dispatch = paneLog[j].dispatch
         => paneLog[i].kind = "send"


\* C23: the process has ended only after teardown: the terminal modes are
\* restored and both timers are cleared, on Escape in normal mode and on a
\* termination signal alike.
C23_NoExitWithoutTeardown ==
  exited => ~rawMode /\ ~pollInterval /\ ~completionInterval


\* C24: done.json holds at most 10 entries, the most recent first, after
\* any runs of the hook; a write of the hook keeps the head of the matched
\* tasks followed by the entries it read, so every entry it drops is at
\* least as old as every entry it keeps.
C24_DoneBounded ==
  /\ [](/\ Len(fsDone) <= DoneLimit
        /\ \A i, j \in 1..Len(fsDone) :
             i < j => fsDone[i].completedAt >= fsDone[j].completedAt)
  /\ [][HookWriteDone =>
         LET all == HookNewDone \o hook.done
         IN /\ Len(fsDone') = Min(Len(all), DoneLimit)
            /\ \A i \in 1..Len(fsDone') : fsDone'[i] = all[i]
            /\ \A d \in (Len(fsDone') + 1)..Len(all), k \in 1..Len(fsDone') :
                 all[d].completedAt <= fsDone'[k].completedAt]_vars

\* the hook has written a full done.json and left out the oldest entry it
\* had read: the newest entry is newer than all the file started with
C24_Witness ==
  /\ hook.pc = "idle"
  /\ Len(fsDone) = DoneLimit
  /\ fsDone[1].completedAt > DoneLimit
  /\ \A i \in 1..Len(fsDone) : fsDone[i].id # 1


\* C25: Enter in normal mode on task T of the Queue with no ActiveTask
\* hands T's content to sendToClaudePane once, takes T and nothing else out
\* of tasks.json, writes {id, content} of T to active.json, loads both into
\* the state and calls focusClaudePane; a focus call that finds no pane
\* changes nothing.
C25_EnterDispatches ==
  [][/\ KeyEnter /\ fsActive = None /\ activeTask = None =>
          /\ sent' = Append(sent, SelectedTask.content)
          /\ paneCalls' = Append(paneCalls, PaneCall("send", SelectedTask.content, Len(sent')))
          /\ fsTasks' = removeTask(fsTasks, SelectedTask.id)
          /\ Len(fsTasks') = Len(fsTasks) - 1
          /\ activating' = SelectedTask
          /\ fsActive' = None
     /\ KeyEnterActivate =>
          /\ fsActive' = [id |-> activating.id, content |-> activating.content]
          /\ activeTask' = fsActive'
          /\ fsTasks' = fsTasks
          /\ tasks' = fsTasks
          /\ sent' = sent
          /\ paneCalls' = Append(paneCalls, PaneCall("focus", <<>>, Len(sent)))
     /\ \A k \in 1..Len(paneCalls) :
          PaneListed(k) /\ paneCalls[k].kind = "focus" /\ ~claudePane =>
            /\ UNCHANGED <<fsVars, memVars, selVars, editVars, paneLog, sent>>
            /\ paneCalls'[k].pc = "done"]_vars

\* the first task was dispatched with no ActiveTask before it: its text
\* was handed over once, it is the ActiveTask in the file and in the
\* state, the other task is still queued, and the focus call found no pane
C25_Witness ==
  /\ sent = <<<<"a">>>>
  /\ fsActive = [id |-> 1, content |-> <<"a">>]
  /\ activeTask = fsActive
  /\ Len(fsTasks) = 1
  /\ fsTasks[1].id = 2
  /\ tasks = fsTasks
  /\ Len(paneCalls) = 2
  /\ paneCalls[2].kind = "focus"
  /\ paneCalls[2].pc = "done"
  /\ \A i \in 1..Len(paneLog) : paneLog[i].kind # "focus"


\* C26: Enter in an input mode over a buffer with a character that is not
\* white space leaves the mode.  In add mode tasks.json gets exactly one
\* task more, after the tasks it had, with a fresh id and with the buffer
\* from its first to its last character that is not white space as
\* content.  In edit mode the task with the edited id gets that content and
\* nothing else of any task changes.
C26_EnterSubmits ==
  [][InputEnter /\ ~IsBlank(inputBuffer) =>
       LET solid == {i \in 1..Len(inputBuffer) : inputBuffer[i] \notin {" ", "\n", "\r"}}
           first == CHOOSE i \in solid : \A j \in solid : i <= j
           last == CHOOSE i \in solid : \A j \in solid : i >= j
           trimmed == SubSeq(inputBuffer, first, last)
       IN /\ inputMode' = "none"
          /\ tasks' = fsTasks'
          /\ inputMode = "add" =>
               /\ Len(fsTasks') = Len(fsTasks) + 1
               /\ SubSeq(fsTasks', 1, Len(fsTasks)) = fsTasks
               /\ fsTasks'[Len(fsTasks')].content = trimmed
               /\ \A i \in 1..Len(fsTasks) : fsTasks[i].id # fsTasks'[Len(fsTasks')].id
          /\ inputMode = "edit" =>
               /\ Len(fsTasks') = Len(fsTasks)
               /\ \A i \in 1..Len(fsTasks) :
                    fsTasks'[i] = IF fsTasks[i].id = editingTaskId
                                  THEN [fsTasks[i] EXCEPT !.content = trimmed]
                                  ELSE fsTasks[i]]_vars

\* Enter has submitted an edit of the first task and an added task
C26_Witness ==
  /\ leftBy = "enter"
  /\ inputMode = "none"
  /\ Len(fsTasks) = 2
  /\ fsTasks[1].id = 1
  /\ fsTasks[1].content = <<"a", "a">>
  /\ fsTasks[2].id > 1
  /\ tasks = fsTasks


\* C27: a step that declares completion (the completion timer on its
\* second idle observation, or 'd' on the ActiveTask) empties active.json
\* and appends the content of the task that was in it to the history, once;
\* with no task in active.json it writes nothing.
C27_CompletionLogsOnce ==
  [][KeyDActiveTwoTick \/ (CompletionResumeTwoTick(TRUE) /\ StableReached(stableCount + 1)) =>
       /\ UNCHANGED <<fsTasks, fsDone>>
       /\ IF fsActive # None
          THEN /\ fsActive' = None
               /\ Len(history') = Len(history) + 1
               /\ SubSeq(history', 1, Len(history)) = history
               /\ history'[Len(history')] = fsActive.content
          ELSE UNCHANGED <<fsActive, history>>]_vars

\* two tasks were completed, one entry each in the history, and nothing is
\* active
C27_Witness ==
  /\ Len(history) = 2
  /\ fsActive = None
  /\ activeTask = None
  /\ autoDone # {}


\* C28: a completion check that resumes from its await while an input mode
\* is open completes nothing and reloads nothing: the files and the
\* sidebar's lists stay as they are.
C28_NoCompletionWhileEditing ==
  [][\A capture \in Captures :
       CompletionResume(capture) /\ inputMode # "none" => UNCHANGED <<fsVars, memVars>>]_vars


\* C29: in the two-tick revision the idle counter does not carry over to
\* another ActiveTask or across a pause of the completion timer: a dispatch
\* that puts another task into active.json, and entering an input mode,
\* leave the counter at 0.
C29_IdleCountNotCarried ==
  [][/\ KeyEnterTwoTick /\ fsActive' # None /\ fsActive' # fsActive => stableCount' = 0
     /\ KeyATwoTick \/ KeyETwoTick => stableCount' = 0]_vars


(***************************************************************************)
(* Liveness of the completion timer: the assistant's pane stays open and   *)
(* every capture shows the prompt; setInterval keeps firing the callbacks  *)
(* of the intervals that are set, and a pending await or dispatch          *)
(* continuation is resumed.                                                *)
(***************************************************************************)
NextLive ==
  \/ KeyDown
  \/ KeyEnter
  \/ KeyEnterActivate
  \/ KeyA
  \/ KeyE
  \/ (inputMode = "add" /\ Trim(inputBuffer) # <<>> => nextId <= MaxTasks) /\ InputEnter
  \/ InputEscape
  \/ \E c \in LifeChars : Len(inputBuffer) < MaxContent /\ InputChar(c)
  \/ PollTick
  \/ CompletionTick
  \/ CompletionResume("prompt")

SpecLive ==
  /\ Init
  /\ [][NextLive]_vars
  /\ WF_vars(PollTick)
  /\ WF_vars(CompletionTick)
  /\ WF_vars(CompletionResume("prompt"))
  /\ WF_vars(KeyEnterActivate)

\* C30: if the sidebar stays in NORMAL mode from some point on, with the pane
\* answering and the assistant idle at its prompt, every ActiveTask is
\* eventually completed, also after a visit to an input mode.
C30_ActiveEventuallyCompleted ==
  <>[](inputMode = "none") => [](fsActive # None => <>(fsActive = None))


(***************************************************************************)
(* The sidebar adding and editing tasks while the hook runs.               *)
(***************************************************************************)
\* the characters typed while the hook runs
RaceChars == {"b"}

\* adding and editing, and the refresh tick
NextRace ==
  \/ KeyA
  \/ KeyE
  \/ KeyDown
  \/ (inputMode = "add" /\ Trim(inputBuffer) # <<>> => nextId <= MaxTasks) /\ InputEnter
  \/ InputEscape
  \/ InputBackspace
  \/ \E c \in RaceChars : Len(inputBuffer) < MaxContent /\ InputChar(c)
  \/ PollTick

\* the hook's file accesses among the sidebar's additions and edits
SpecRace == InitHook /\ [][NextRace \/ NextHookSteps]_vars

\* C31: the hook's write of tasks.json loses no task that the sidebar added
\* and no content that the sidebar changed since the hook read the file.
C31_NoQueuedTaskLost ==
  [][HookWriteTasks =>
       LET readIds == {t.id : t \in Range(hook.tasks)}
           keptIds == {t.id : t \in Range(HookRemaining)}
       IN \A t \in Range(fsTasks) :
            t.id \notin readIds \/ t.id \in keptIds => t \in Range(fsTasks')]_vars


\* C32 as stated: editingTaskId is set exactly in edit mode, outside the
\* input modes the buffer is empty and the cursor 0, and every submit, every
\* cancel and every paste of several lines resets the edit sub-state.
C32_ResetOnEveryPaste ==
  /\ [](/\ editingTaskId # 0 <=> inputMode = "edit"
        /\ inputMode = "none" => inputBuffer = <<>> /\ inputCursor = 0)
  /\ [][\/ InputEnter
        \/ InputEscape
        \/ \E content \in EditPastes : Len(PasteLines(content)) > 1 /\ Paste(content)
        => inputMode' = "none" /\ editingTaskId' = 0 /\ inputBuffer' = <<>>
           /\ inputCursor' = 0]_vars

\* C32: editingTaskId is set exactly in edit mode, outside the input modes
\* the buffer is empty and the cursor 0, and every submit, every cancel and
\* every paste of several non-blank lines in add mode resets the edit
\* sub-state; in edit mode such a paste is inserted and the mode stays.
C32_EditStateReset ==
  /\ [](/\ editingTaskId # 0 <=> inputMode = "edit"
        /\ inputMode = "none" => inputBuffer = <<>> /\ inputCursor = 0)
  /\ [][\A content \in EditPastes :
          /\ \/ InputEnter
             \/ InputEscape
             \/ inputMode = "add" /\ Len(PasteLines(content)) > 1 /\ Paste(content)
             => inputMode' = "none" /\ editingTaskId' = 0 /\ inputBuffer' = <<>>
                /\ inputCursor' = 0
          /\ inputMode = "edit" /\ Paste(content)
             => inputMode' = "edit" /\ editingTaskId' = editingTaskId]_vars

C32_Witness ==
  /\ leftBy = "paste"
  /\ inputMode = "none"
  /\ Len(fsTasks) >= 2


\* C33: in NORMAL mode with the queue section selected and a Queue that is
\* not empty, selectedIndex designates one of its items, also after a refresh
\* tick has loaded a Queue that another writer shortened.
C33_SelectionInRange ==
  inputMode = "none" /\ selectedSection = "queue" /\ tasks # <<>> =>
    0 <= selectedIndex /\ selectedIndex < Len(tasks)


(***************************************************************************)
(* Navigation over the Queue and the Review rows.                          *)
(***************************************************************************)
\* the sizes of the Queue and of done.json that navigation starts from:
\* done.json holds fewer entries than the Review section shows, as many, or
\* one more
NavQueueSizes == 0..2
NavDoneSizes == {0, 1, 5, 6}

InitNav ==
  \E q \in NavQueueSizes, d \in NavDoneSizes :
    Started([i \in 1..q |-> NewTask(d + i, <<"a">>)], None, DoneFile(d))

\* selection, deletion and the Review keys
NextNav ==
  \/ KeyUp
  \/ KeyDown
  \/ \E n \in 1..MaxTasks : KeyDigit(n)
  \/ KeyDQueue
  \/ KeyDDone
  \/ KeyR
  \/ PollTick

SpecNav == InitNav /\ [][NextNav]_vars

\* C34: while the Review section is selected, doneSelectedIndex designates
\* one of the at most 5 Review rows that are rendered.
C34_DoneSelectionRendered ==
  selectedSection = "done" =>
    0 <= doneSelectedIndex /\ doneSelectedIndex <= Min(Len(doneTasks), 5) - 1


(***************************************************************************)
(* The keys that act on the selected Queue item, and the row that render   *)
(* marks.                                                                  *)
(***************************************************************************)
\* the clarify prompt: a fixed text around the task's id and content
ClarifyPrompt(task) == [id |-> task.id, content |-> task.content]

\* handleNormalMode: Ctrl+Enter or 'c': the prompt is sent, the task stays
\* in the Queue
KeyC ==
  /\ InNormalMode
  /\ selectedSection = "queue"
  /\ SelectedTask # None
  /\ paneCalls' = paneCalls \o <<PaneCall("send", ClarifyPrompt(SelectedTask), 0),
                                  PaneCall("focus", <<>>, 0)>>
  /\ UNCHANGED <<fsVars, memVars, selVars, editVars, timerVars, termVars, claudePane, hook,
                 pasteVars, screenVars, procVars, paneLog, activating, nextId, sent>>

\* renderTask: isSelected for the row of the given index
isSelected(index) == selectedSection = "queue" /\ index = selectedIndex

\* the task of the row that render draws with the selection bracket: the
\* rows are those of getSortedTasks(), in its order
MarkedTask ==
  LET rows == {i \in 1..Len(getSortedTasks) : isSelected(i - 1)}
  IN IF rows = {} THEN None ELSE getSortedTasks[CHOOSE i \in rows : TRUE]

\* the sidebar's keys on a Queue whose tasks carry priorities; one
\* dispatch, and one clarify prompt before it
NextAct ==
  \/ KeyDown
  \/ \E n \in 1..MaxTasks : KeyDigit(n)
  \/ sent = <<>> /\ KeyEnter
  \/ KeyEnterActivate
  \/ KeyDQueue
  \/ paneCalls = <<>> /\ KeyC
  \/ KeyE
  \/ InputEscape

\* tasks.json as addTask builds it, in the order of creation, with
\* priorities set by another writer
InitAct ==
  \E queue \in SortQueues :
    /\ \A i \in 1..Len(queue) : queue[i].id = i
    /\ Started(queue, None, <<>>)

SpecAct == InitAct /\ [][NextAct]_vars

\* C35: Enter, 'e', 'd' and 'c' in the queue section act on the task of the
\* row that render marks as selected: that task's text is sent and it is
\* the one taken out of tasks.json for activation, the one edited, the one
\* deleted, the one the clarify prompt names.
C35_ActsOnMarkedRow ==
  [][/\ KeyEnter =>
          /\ MarkedTask # None
          /\ sent' = Append(sent, MarkedTask.content)
          /\ activating' = MarkedTask
          /\ {t.id : t \in Range(fsTasks')} = {t.id : t \in Range(fsTasks)} \ {MarkedTask.id}
     /\ KeyE => MarkedTask # None /\ editingTaskId' = MarkedTask.id
                /\ inputBuffer' = MarkedTask.content
     /\ KeyDQueue =>
          /\ MarkedTask # None
          /\ {t.id : t \in Range(fsTasks')} = {t.id : t \in Range(fsTasks)} \ {MarkedTask.id}
     /\ KeyC => MarkedTask # None
                /\ paneCalls'[Len(paneCalls) + 1].text = ClarifyPrompt(MarkedTask)]_vars

C35_Witness ==
  /\ inputMode = "edit"
  /\ selectedIndex < Len(tasks)
  /\ editingTaskId # tasks[selectedIndex + 1].id


(***************************************************************************)
(* Up and Down as functions of the selection, for a Queue of q tasks and   *)
(* a Done list of d entries.                                               *)
(***************************************************************************)
\* the three selection fields of the state
Selection ==
  [section |-> selectedSection, index |-> selectedIndex, doneIndex |-> doneSelectedIndex]

\* handleNormalMode: Up arrow or k
navigateUp(s, q, d) ==
  IF s.section = "queue"
  THEN IF q = 0
       THEN IF d > 0 THEN [s EXCEPT !.section = "done", !.doneIndex = d - 1] ELSE s
       ELSE IF s.index > 0 THEN [s EXCEPT !.index = s.index - 1]
       ELSE IF d > 0 THEN [s EXCEPT !.section = "done", !.doneIndex = Min(d - 1, 4)]
       ELSE [s EXCEPT !.index = q - 1]
  ELSE IF s.doneIndex > 0 THEN [s EXCEPT !.doneIndex = s.doneIndex - 1]
       ELSE IF q > 0 THEN [s EXCEPT !.section = "queue", !.index = q - 1]
       ELSE [s EXCEPT !.doneIndex = Min(d - 1, 4)]

\* handleNormalMode: Down arrow or j
navigateDown(s, q, d) ==
  IF s.section = "queue"
  THEN IF q = 0
       THEN IF d > 0 THEN [s EXCEPT !.section = "done", !.doneIndex = 0] ELSE s
       ELSE IF s.index < q - 1 THEN [s EXCEPT !.index = s.index + 1]
       ELSE IF d > 0 THEN [s EXCEPT !.section = "done", !.doneIndex = 0]
       ELSE [s EXCEPT !.index = 0]
  ELSE IF s.doneIndex < Min(d - 1, 4) THEN [s EXCEPT !.doneIndex = s.doneIndex + 1]
       ELSE IF q > 0 THEN [s EXCEPT !.section = "queue", !.index = 0]
       ELSE [s EXCEPT !.doneIndex = 0]

\* Down pressed k times
RECURSIVE DownTimes(_, _, _, _)
DownTimes(s, k, q, d) ==
  IF k = 0 THEN s ELSE DownTimes(navigateDown(s, q, d), k - 1, q, d)

\* the item a selection designates: a section and an index in it
Item(s) == IF s.section = "queue" THEN <<"queue", s.index>> ELSE <<"done", s.doneIndex>>

\* the visible items: q Queue rows and m Review rows
VisibleItems(q, m) == {<<"queue", i>> : i \in 0..(q - 1)} \cup {<<"done", i>> : i \in 0..(m - 1)}

\* C36: with a Queue that is not empty, Up and Down move through the Queue
\* and the visible Review rows as one circular list: Down pressed q + m
\* times visits every visible item once and ends on the item it started
\* from, and Up undoes Down and Down undoes Up.
C36_CircularNavigation ==
  /\ [](LET q == Len(tasks)
            d == Len(doneTasks)
            m == Min(d, 5)
        IN inputMode = "none" /\ q >= 1 =>
             /\ Item(DownTimes(Selection, q + m, q, d)) = Item(Selection)
             /\ {Item(DownTimes(Selection, k, q, d)) : k \in 1..(q + m)} = VisibleItems(q, m)
             /\ Item(navigateUp(navigateDown(Selection, q, d), q, d)) = Item(Selection)
             /\ Item(navigateDown(navigateUp(Selection, q, d), q, d)) = Item(Selection))
  /\ [][/\ KeyDown => Selection' = navigateDown(Selection, Len(tasks), Len(doneTasks))
        /\ KeyUp => Selection' = navigateUp(Selection, Len(tasks), Len(doneTasks))]_vars


(***************************************************************************)
(* Typed characters that reach handleInput one per chunk or several in a   *)
(* chunk.                                                                  *)
(***************************************************************************)
\* the typed streams, and the ways stdin may cut them: one chunk per
\* character, or one chunk for both
TypedStreams == {<<"a", "a">>, <<"a", " ">>, <<" ", "a">>}
TypedChunkings(s) == {<<s>>, <<<<s[1]>>, <<s[2]>>>>}

NextChunks ==
  \/ KeyA
  \/ KeyE
  \/ KeyDown
  \/ EnterFits /\ InputEnter
  \/ InputEscape
  \/ InputLeft
  \/ \E s \in TypedStreams : \E chunks \in TypedChunkings(s) :
        Len(inputBuffer) + Len(s) <= MaxBuf /\ PasteArrives(chunks)
  \/ HandleChunk

\* typing, with stdin cutting the stream
SpecChunks == Init /\ [][NextChunks]_vars

\* C37: a chunk of several printable characters that arrives in an input
\* mode has the effect of its characters arriving in chunks of their own:
\* all of them are inserted at the cursor, which moves behind them.
C37_ChunkingIrrelevant ==
  [][HandleChunk /\ ~isPasting /\ inputMode # "none"
       /\ (\A i \in 1..Len(Head(stdin)) : Head(stdin)[i] \in Chars)
     => /\ inputBuffer' = InsertAt(inputBuffer, inputCursor, Head(stdin))
        /\ inputCursor' = JsAdd(inputCursor, Len(Head(stdin)))]_vars


(***************************************************************************)
(* The refresh tick with its repaint, and the files changed by the hook.   *)
(***************************************************************************)
\* a comparison that leaves the statusline out
dataChangedLists(newStatusline) ==
  getTasks # tasks \/ getActiveTask # activeTask \/ fsDone # doneTasks

\* loadData: tasksChanged || activeChanged || doneChanged ||
\* claudeTodosChanged || statuslineChanged.  The statusline stands for the
\* two documents the sidebar only reads
dataChanged(newStatusline) ==
  getTasks # tasks \/ getActiveTask # activeTask \/ fsDone # doneTasks
    \/ newStatusline # statusline

\* the pollInterval callback outside the input modes: loadData(), which
\* finds the statusline file present or absent, replaces the state and
\* calls render() when a document differs from the state, and does nothing
\* otherwise
RefreshTick(newStatusline) ==
  /\ running
  /\ pollInterval
  /\ activating = None
  /\ inputMode = "none"
  /\ UNCHANGED fsVars
  /\ IF dataChanged(newStatusline)
     THEN /\ loadData
          /\ statusline' = newStatusline
          /\ lastObs' = "repainted"
     ELSE /\ UNCHANGED <<memVars, statusline>>
          /\ lastObs' = "same"
  /\ UNCHANGED <<selVars, editVars, pollInterval, completionInterval, stableCount, checking,
                 autoDone, termVars, claudePane, hook, pasteVars, height, painted, paneVars,
                 procVars, activating, nextId, sent>>

NextRefresh ==
  \/ KeyDown
  \/ KeyEnter
  \/ KeyEnterActivate
  \/ KeyA
  \/ InputEscape
  \/ NextHookSteps
  \/ \E s \in BOOLEAN : RefreshTick(s)

\* the sidebar's refresh among its own dispatches and the hook's writes
SpecRefresh == InitHook /\ [][NextRefresh]_vars

\* C38: a refresh tick in NORMAL mode leaves the state equal to the
\* persisted documents; it repaints exactly when one of them differed from
\* the state, changes nothing otherwise, and never touches the files, the
\* selection or the edit sub-state.
C38_RefreshLoadsAndPaints ==
  [][\A s \in BOOLEAN :
       RefreshTick(s) =>
         /\ tasks' = getTasks' /\ activeTask' = getActiveTask' /\ doneTasks' = fsDone'
         /\ statusline' = s
         /\ lastObs' = "repainted" <=>
              <<tasks', activeTask', doneTasks', statusline'>>
                # <<tasks, activeTask, doneTasks, statusline>>
         /\ UNCHANGED <<fsVars, selVars, editVars>>]_vars

C38_Witness ==
  /\ lastObs = "repainted"
  /\ doneTasks # <<>>
  /\ doneTasks = fsDone
  /\ Len(tasks) = 1


\* C39: in an input mode the full paint that a focus report triggers leaves
\* the terminal cursor at the wrapped row and column of inputCursor, for the
\* width and the column origin with which the buffer is wrapped and drawn.
C39_CursorAtLogicalOffset ==
  [][\A f \in BOOLEAN :
       FocusReport(f) /\ focused # f /\ inputMode # "none" /\ MaxWidth > 0 /\ ~RenderHangs'
       => painted'.cursor = getCursorPosition]_vars


\* The sidebar editing a queued task while the hook runs; the timers are left
\* out, so the sidebar's tasks are what its last handler loaded
NextGone ==
  \/ KeyE
  \/ KeyDown
  \/ InputEnter
  \/ InputEscape
  \/ InputBackspace
  \/ \E c \in RaceChars : Len(inputBuffer) < MaxContent /\ InputChar(c)

SpecGone == InitHook /\ [][NextGone \/ NextHookSteps]_vars

\* C40: submitting the edit of a task that another writer has removed from
\* tasks.json writes nothing: the file stays as that writer left it and the
\* sidebar returns to NORMAL mode, having loaded the file when the buffer
\* held a content.
C40_EditOfRemovedTask ==
  [][InputEnter /\ inputMode = "edit" /\ editingTaskId \notin {t.id : t \in Range(fsTasks)}
     => /\ fsTasks' = fsTasks
        /\ tasks' = IF IsBlank(inputBuffer) THEN tasks ELSE fsTasks
        /\ inputMode' = "none"
        /\ UNCHANGED <<fsActive, fsDone, history>>]_vars

\* C40's case: no task was ever added, the one queued task was edited and
\* submitted with a content, and the submit found the file emptied by the
\* hook, which has moved the task to done.json
C40_Witness ==
  /\ leftBy = "enter"
  /\ inputMode = "none"
  /\ nextId = 2
  /\ tasks = <<>>
  /\ fsTasks = <<>>
  /\ fsDone # <<>>

=============================================================================
